---- MODULE Spec2Model ----
(***************************************************************************)
(* Movie-Reviews (Django): the relational store (Movie, MovieProfile,      *)
(* Review, Watchlist), the post_save trigger that creates the profile,     *)
(* and the request handlers of movies/views.py, the admin site and the     *)
(* populate_reviews command that read and write the store.                 *)
(*                                                                         *)
(* A handler is one action.  No handler runs in a transaction: each of its *)
(* statements commits by itself.  A handler of several statements takes an *)
(* input (`suspend`, `stop`) that names the statement after which the      *)
(* request is preempted; other requests then run, and a Resume action goes *)
(* on with what the request had read.  One request is suspended at a time. *)
(* A suspended review submission has passed validation; the rating and the *)
(* comment it carries are read by nothing before the write, and are named  *)
(* at the write.                                                           *)
(***************************************************************************)
EXTENDS Integers, FiniteSets, Sequences, TLC

\* ------------------------------------------------------------------ bounds
MaxMovieId == 2
MaxReviewId == 2
MaxWatchId == 2
MaxProfileId == 3

\* ------------------------------------------------------------------ actors
Users == {"alice", "bob", "staff"}
Anon == "anon"
Actors == Users \cup {Anon}

is_staff(u) == u = "staff"
is_authenticated(a) == a \in Users

MovieIds == 1..MaxMovieId
ReviewIds == 1..MaxReviewId
Names == {"Inception", "Heat"}

\* date.today(), as a day number
Today == 100

\* a name that is empty or whitespace only
Blank == {"", " "}

\* the fields of a movie form or request body: a valid body for each name
\* (CatalogInputs), and bodies with one bad field each
CatalogInputs ==
    {[name |-> n, duration |-> 148, delivery_mode |-> "THEATER", release_date |-> Today - 1]
        : n \in Names}

MovieInputs ==
    CatalogInputs
    \cup {[name |-> " ", duration |-> 148, delivery_mode |-> "THEATER", release_date |-> Today],
          [name |-> "Heat", duration |-> 0, delivery_mode |-> "STREAMING", release_date |-> Today],
          [name |-> "Heat", duration |-> 148, delivery_mode |-> "streaming", release_date |-> Today],
          [name |-> "Heat", duration |-> 148, delivery_mode |-> "DVD", release_date |-> Today],
          [name |-> "Heat", duration |-> 148, delivery_mode |-> "THEATER", release_date |-> Today + 1]}

\* the body a staff user sends in the review and watchlist specifications
StaffMovie ==
    [name |-> "Inception", duration |-> 148, delivery_mode |-> "THEATER", release_date |-> Today - 1]

\* (rating, comment) pairs a client may send
ReviewInputs == { <<4, "good">>, <<2, "dull">>, <<0, "good">>, <<4, "">> }

VARIABLES
    movies,        \* Movie rows: [id, name, duration, delivery_mode, release_date]
    profiles,      \* MovieProfile rows by movie_id: at most one [id, is_featured]
    reviews,       \* Review rows: [id, user, movie, rating, comment]
    watchlist,     \* Watchlist rows: [id, user, movie]
    nextMovieId,   \* the auto-increment primary keys
    nextProfileId,
    nextReviewId,
    nextWatchId,
    inflight,      \* the suspended request: what it read, what it will write
    response,      \* the result of the request that completed last
    tog,           \* observer: the run of watchlist toggles completed back to back
    session,       \* the browser session: its user, and when its auth_token was signed
    now,           \* the time, in seconds
    context,       \* what the list or watchlist page rendered last
    backend        \* the database: where it sorts NULL

vars == <<movies, profiles, reviews, watchlist, nextMovieId, nextProfileId, nextReviewId,
          nextWatchId,
          inflight, response, tog, session, now, context, backend>>

\* what the write handlers leave alone
view == <<session, now, context, backend>>

\* an anonymous session; token = -1: no auth_token in the session
NoSession == [user |-> "anon", token |-> -1]
\* nothing rendered yet.  A context names the view, the query (sort, min_rating,
\* order_by), and the pages rendered by consecutive requests of one query: `first`
\* is the number of the first of them, `count` is paginator.count, and `basis` the
\* movies and reviews that the rows of the last page were read from
NoContext ==
    [view |-> "none", sort |-> "none", min_rating |-> "", order_by |-> <<>>,
     first |-> 1, pages |-> <<>>, num_pages |-> 0, count |-> 0, basis |-> <<{}, {}>>]

Idle == [op |-> "idle", user |-> "none", movie |-> 0, seen |-> 0, owner |-> "none",
         flag |-> FALSE]
NoTog == [user |-> "none", movie |-> 0, before |-> {}, count |-> 0]

\* a request completes with `status`
Answer(status) == response' = status /\ tog' = NoTog

\* a request is preempted after its read
Suspend(req) ==
    /\ inflight = Idle
    /\ inflight' = req
    /\ UNCHANGED response
    /\ tog' = NoTog

\* a read handler is preempted between two of its queries, with what it has read so
\* far in `data`; no page is rendered while its request is under way
ReadReq(op, actor, pk, checked, data) ==
    [op |-> op, user |-> actor, movie |-> pk, seen |-> 0, owner |-> "none",
     flag |-> checked, data |-> data]

\* the list requests are taken one at a time: they write nothing, so that a second one
\* reads what it would read alone
ReadOps == {"movie_list", "watchlist_page", "movie_rating"}

SuspendRead(req) ==
    /\ inflight = Idle
    /\ inflight' = req
    /\ context' = NoContext
    /\ UNCHANGED response

Max(S) == CHOOSE x \in S : \A y \in S : y <= x

\* ------------------------------------------------------------------ store
MovieExists(mv, pk) == \E m \in mv : m.id = pk

\* what an instance holds for `profile` when no MovieProfile row refers to it: the
\* reverse one-to-one descriptor caches the miss, and raises RelatedObjectDoesNotExist
NoProfile == [id |-> 0, is_featured |-> FALSE]

\* instance.profile, read through the reverse one-to-one descriptor: the row whose
\* movie_id is pk, which the instance then caches
ReadProfile(pf, pk) == IF Len(pf[pk]) = 0 THEN NoProfile ELSE pf[pk][1]

\* Model.save() of the MovieProfile instance `row` whose movie_id is pk: UPDATE ...
\* WHERE id = row.id, and an INSERT under that id when the UPDATE matched no row;
\* either fails when another row holds movie_id = pk
ProfileSave(pf, pk, row) ==
    LET rest == [k \in DOMAIN pf |->
                   IF Len(pf[k]) >= 1 /\ pf[k][1].id = row.id THEN <<>> ELSE pf[k]]
    IN  IF Len(rest[pk]) >= 1
        THEN [ok |-> FALSE, profiles |-> pf]
        ELSE [ok |-> TRUE, profiles |-> [rest EXCEPT ![pk] = <<row>>]]

\* MovieProfile.objects.create(movie=instance): an INSERT under the new primary key p;
\* movie is a OneToOneField (unique)
ProfileCreate(pf, pk, p) ==
    IF Len(pf[pk]) >= 1
    THEN [ok |-> FALSE, profiles |-> pf]
    ELSE [ok |-> TRUE, profiles |-> [pf EXCEPT ![pk] = <<[id |-> p, is_featured |-> FALSE]>>]]

\* the post_save receiver of Movie.  `cached` is what the instance holds for `profile`
\* when the receiver runs, p the next primary key of MovieProfile; objects.create
\* leaves the new row cached on the instance
create_movie_profile(pf, pk, created, cached, p) ==
    IF created
    THEN LET res == ProfileCreate(pf, pk, p)
         IN  [ok |-> res.ok, profiles |-> res.profiles,
              cached |-> [id |-> p, is_featured |-> FALSE]]
    ELSE IF cached.id = 0
         THEN [ok |-> FALSE, profiles |-> pf, cached |-> cached]  \* RelatedObjectDoesNotExist
         ELSE LET res == ProfileSave(pf, pk, cached)              \* instance.profile.save()
              IN  [ok |-> res.ok, profiles |-> res.profiles, cached |-> cached]

MovieRow(pk, data) ==
    [id |-> pk, name |-> data.name, duration |-> data.duration,
     delivery_mode |-> data.delivery_mode, release_date |-> data.release_date]

MovieInsert(mv, pk, data) == mv \cup {MovieRow(pk, data)}
MovieUpdate(mv, pk, data) == {m \in mv : m.id # pk} \cup {MovieRow(pk, data)}

\* str.upper() on the delivery modes a client sends
Upper(str) ==
    CASE str = "theater" -> "THEATER"
      [] str = "streaming" -> "STREAMING"
      [] OTHER -> str

\* AddMovieForm / UpdateMovieForm (ModelForm of Movie, no validators of its own):
\* name is a required CharField, which strips whitespace; duration is any integer,
\* delivery_mode any non-empty string of at most 20 characters, release_date any date
MovieFormValid(data) == data.name \notin Blank

\* MovieSerializer: validate_name_not_blank, validate_positive_duration,
\* validate_delivery_mode, validate_release_date_not_future
MovieSerializerValid(data) ==
    /\ data.name \notin Blank
    /\ data.duration > 0
    /\ Upper(data.delivery_mode) \in {"THEATER", "STREAMING"}
    /\ data.release_date <= Today

\* order_by names no nulls_first/nulls_last, so the place of NULL is the database's:
\* SQLite and MySQL sort NULL as the smallest value, PostgreSQL and Oracle as the
\* largest
Backends == {"nulls_smallest", "nulls_largest"}

\* the empty database, on a backend of either kind
Init ==
    /\ movies = {}
    /\ profiles = [pk \in MovieIds |-> <<>>]
    /\ reviews = {}
    /\ watchlist = {}
    /\ nextMovieId = 1
    /\ nextProfileId = 1
    /\ nextReviewId = 1
    /\ nextWatchId = 1
    /\ inflight = Idle
    /\ response = "none"
    /\ tog = NoTog
    /\ session = NoSession
    /\ now = 0
    /\ context = NoContext
    /\ backend \in Backends

\* the empty database of the specifications that list movies by release date only: no
\* step of theirs reads backend, and they start on one backend instead of twice over
InitEmpty == Init /\ backend = "nulls_smallest"

\* ------------------------------------------------------------------ catalog
\* the views without UserPassesTestMixin
StaffViewGate_LoginOnly(actor) ==
    IF ~is_authenticated(actor) THEN "redirect" ELSE "ok"

\* LoginRequiredMixin, UserPassesTestMixin with test_func = is_staff
StaffViewGate(actor) ==
    IF ~is_authenticated(actor) THEN "redirect"
    ELSE IF ~is_staff(actor) THEN "forbidden"
    ELSE "ok"

\* MovieCreateView: form_valid runs in transaction.atomic
AddMovie(actor, data, feat, fail) ==
    LET gate == StaffViewGate(actor)
        pk == nextMovieId
        sig == create_movie_profile(profiles, pk, TRUE, NoProfile, nextProfileId)
        res == ProfileSave(sig.profiles, pk, [sig.cached EXCEPT !.is_featured = feat])
    IN  /\ UNCHANGED <<view, reviews, watchlist, nextReviewId, nextWatchId, inflight>>
        /\ IF gate # "ok"
           THEN /\ ~fail
                /\ Answer(gate)
                /\ UNCHANGED <<movies, profiles, nextProfileId, nextMovieId, nextProfileId>>
           ELSE IF ~MovieFormValid(data)
           THEN /\ ~fail
                /\ Answer("invalid")
                /\ UNCHANGED <<movies, profiles, nextProfileId, nextMovieId, nextProfileId>>
           ELSE /\ pk <= MaxMovieId
                /\ nextProfileId <= MaxProfileId
                /\ IF fail \/ ~sig.ok \/ ~res.ok
                   THEN /\ Answer("error")
                        /\ UNCHANGED <<movies, profiles, nextProfileId, nextMovieId, nextProfileId>>
                   ELSE /\ movies' = MovieInsert(movies, pk, data)
                        /\ profiles' = res.profiles
                        /\ nextMovieId' = pk + 1
                        /\ nextProfileId' = nextProfileId + 1
                        /\ Answer("ok")

\* a request is preempted again, at its next statement
Resuspend(req) ==
    /\ inflight' = req
    /\ UNCHANGED response
    /\ tog' = NoTog

\* a request is preempted: for the first time, or again
Hold(req, resumed) == IF resumed THEN Resuspend(req) ELSE Suspend(req)

\* Model.save() of a Movie instance with primary key pk: UPDATE, and INSERT under the
\* same pk when the UPDATE matched no row.  `created` is what post_save is sent.
MovieSave(mv, pk, data) ==
    [created |-> ~MovieExists(mv, pk), movies |-> MovieUpdate(mv, pk, data)]

\* MovieUpdateView.form_valid, in transaction.atomic: form.save(), the receiver, then
\* the profile flags.  `cached` is what get_initial left on self.object for `profile`
UpdateFormValid(pk, data, feat, fail, cached) ==
    LET saved == MovieSave(movies, pk, data)
        sig == create_movie_profile(profiles, pk, saved.created, cached, nextProfileId)
        res == ProfileSave(sig.profiles, pk, [sig.cached EXCEPT !.is_featured = feat])
    IN  IF fail \/ ~sig.ok \/ ~res.ok
        THEN /\ Answer("error")
             /\ UNCHANGED <<movies, profiles, nextProfileId>>
        ELSE /\ saved.created => nextProfileId <= MaxProfileId
             /\ movies' = saved.movies
             /\ profiles' = res.profiles
             /\ nextProfileId' = IF saved.created THEN nextProfileId + 1 ELSE nextProfileId
             /\ Answer("ok")

\* the places where a POST of MovieUpdateView can be preempted: after get_object(),
\* and after get_initial(), which reads self.object.profile
UpdateSuspends == {"no", "read", "cached"}

\* MovieUpdateView POST: get_object(), get_initial(), the form, then form_valid in
\* transaction.atomic
UpdateMovie(actor, pk, data, feat, fail, suspend) ==
    LET gate == StaffViewGate(actor)
        cached == ReadProfile(profiles, pk)
    IN  /\ UNCHANGED <<view, reviews, watchlist, nextMovieId, nextReviewId, nextWatchId>>
        /\ IF gate # "ok"
           THEN /\ ~fail /\ suspend = "no"
                /\ Answer(gate)
                /\ UNCHANGED <<movies, profiles, nextProfileId, inflight>>
           ELSE IF ~MovieExists(movies, pk)
           THEN /\ ~fail /\ suspend = "no"
                /\ Answer("not_found")
                /\ UNCHANGED <<movies, profiles, nextProfileId, inflight>>
           ELSE IF ~MovieFormValid(data)
           THEN /\ ~fail /\ suspend = "no"
                /\ Answer("invalid")
                /\ UNCHANGED <<movies, profiles, nextProfileId, inflight>>
           ELSE IF suspend = "read"
           THEN /\ ~fail
                /\ Suspend([op |-> "update_movie", user |-> actor, movie |-> pk, seen |-> 0,
                            owner |-> "none", flag |-> FALSE])
                /\ UNCHANGED <<movies, profiles, nextProfileId>>
           ELSE IF suspend = "cached"
           THEN /\ ~fail
                /\ Suspend([op |-> "update_form", user |-> actor, movie |-> pk,
                            seen |-> cached.id, owner |-> "none",
                            flag |-> cached.is_featured])
                /\ UNCHANGED <<movies, profiles, nextProfileId>>
           ELSE UpdateFormValid(pk, data, feat, fail, cached) /\ UNCHANGED inflight

\* the preempted MovieUpdateView request goes on: from get_object() to get_initial(),
\* after which it can be preempted again, and to form_valid, which uses the profile
\* get_initial cached
UpdateResume(data, feat, fail, suspend) ==
    LET pk == inflight.movie
        cached == IF inflight.op = "update_movie"
                  THEN ReadProfile(profiles, pk)
                  ELSE [id |-> inflight.seen, is_featured |-> inflight.flag]
    IN  /\ inflight.op \in {"update_movie", "update_form"}
        /\ MovieFormValid(data)
        /\ UNCHANGED <<view, reviews, watchlist, nextMovieId, nextReviewId, nextWatchId>>
        /\ IF suspend
           THEN /\ inflight.op = "update_movie"
                /\ ~fail
                /\ Resuspend([inflight EXCEPT !.op = "update_form", !.seen = cached.id,
                                              !.flag = cached.is_featured])
                /\ UNCHANGED <<movies, profiles, nextProfileId>>
           ELSE /\ UpdateFormValid(pk, data, feat, fail, cached)
                /\ inflight' = Idle

\* a delete that leaves the reviews of the movie behind
CascadeDelete_KeepReviews(pk) ==
    /\ movies' = {m \in movies : m.id # pk}
    /\ profiles' = [profiles EXCEPT ![pk] = <<>>]
    /\ reviews' = reviews
    /\ watchlist' = {w \in watchlist : w.movie # pk}

\* Movie.delete(): the rows whose ForeignKey/OneToOneField is on_delete=CASCADE go too
CascadeDelete(pk) ==
    /\ movies' = {m \in movies : m.id # pk}
    /\ profiles' = [profiles EXCEPT ![pk] = <<>>]
    /\ reviews' = {r \in reviews : r.movie # pk}
    /\ watchlist' = {w \in watchlist : w.movie # pk}

\* MovieDeleteView: get_object(), and then the delete() of the object fetched; the two
\* are not in a transaction, and with `suspend` the request is preempted between them
DeleteMovie(actor, pk, suspend) ==
    LET gate == StaffViewGate(actor)
    IN  /\ UNCHANGED <<view, nextMovieId, nextProfileId, nextReviewId, nextWatchId>>
        /\ IF gate # "ok"
           THEN /\ ~suspend
                /\ Answer(gate)
                /\ UNCHANGED <<movies, profiles, reviews, watchlist, inflight>>
           ELSE IF ~MovieExists(movies, pk)
           THEN /\ ~suspend
                /\ Answer("not_found")
                /\ UNCHANGED <<movies, profiles, reviews, watchlist, inflight>>
           ELSE IF suspend
           THEN /\ Suspend([op |-> "delete_movie", user |-> actor, movie |-> pk,
                            seen |-> 0, owner |-> "none", flag |-> FALSE])
                /\ UNCHANGED <<movies, profiles, reviews, watchlist>>
           ELSE /\ CascadeDelete(pk)
                /\ Answer("ok")
                /\ UNCHANGED inflight

\* the object fetched is deleted: Model.delete() deletes the rows that refer to the
\* movie and the row of the movie, as many as there are now, and raises nothing when
\* another request has deleted them
DeleteMovieResume ==
    /\ inflight.op = "delete_movie"
    /\ CascadeDelete(inflight.movie)
    /\ Answer("ok")
    /\ inflight' = Idle
    /\ UNCHANGED <<view, nextMovieId, nextProfileId, nextReviewId, nextWatchId>>

\* rest_framework IsAdminUser, and IsStaffOrReadOnly.has_permission for a write method
StaffApiGate(actor) ==
    IF ~is_authenticated(actor) THEN "not_authenticated"
    ELSE IF ~is_staff(actor) THEN "forbidden"
    ELSE "ok"

\* the post_save receiver after a committed Movie.save(), with no transaction around
\* them.  For a new movie it inserts the profile; otherwise instance.profile.save() is
\* two statements, the SELECT of the profile and its UPDATE or INSERT, between which
\* the request can be preempted.  The row a profile write refers to must exist
PostSave(actor, pk, created, fail, suspend, resumed) ==
    LET cached == ReadProfile(profiles, pk)
        sig == create_movie_profile(profiles, pk, created, cached, nextProfileId)
    IN  IF suspend
        THEN /\ ~created /\ cached.id # 0
             /\ ~fail
             /\ Hold([op |-> "profile_save", user |-> actor, movie |-> pk,
                      seen |-> cached.id, owner |-> "none", flag |-> cached.is_featured],
                     resumed)
             /\ UNCHANGED <<profiles, nextProfileId>>
        ELSE /\ inflight' = IF resumed THEN Idle ELSE inflight
             /\ IF fail \/ ~sig.ok \/ ~MovieExists(movies', pk)
                THEN /\ Answer("error")
                     /\ UNCHANGED <<profiles, nextProfileId>>
                ELSE /\ created => nextProfileId <= MaxProfileId
                     /\ profiles' = sig.profiles
                     /\ nextProfileId' = IF created THEN nextProfileId + 1 ELSE nextProfileId
                     /\ Answer("ok")

\* MovieListCreateAPIView POST: Movie.save() commits, then post_save runs; no
\* transaction, so the request can be preempted between the two writes
ApiCreateMovie(actor, data, fail, suspend) ==
    LET gate == StaffApiGate(actor)
        pk == nextMovieId
    IN  /\ UNCHANGED <<view, reviews, watchlist, nextReviewId, nextWatchId>>
        /\ IF gate # "ok"
           THEN /\ ~fail /\ ~suspend
                /\ Answer(gate)
                /\ UNCHANGED <<movies, profiles, nextProfileId, nextMovieId, nextProfileId, inflight>>
           ELSE IF ~MovieSerializerValid(data)
           THEN /\ ~fail /\ ~suspend
                /\ Answer("invalid")
                /\ UNCHANGED <<movies, profiles, nextProfileId, nextMovieId, nextProfileId, inflight>>
           ELSE /\ pk <= MaxMovieId
                /\ movies' = MovieInsert(movies, pk, data)
                /\ nextMovieId' = pk + 1
                /\ IF suspend
                   THEN /\ ~fail
                        /\ Suspend([op |-> "post_save", user |-> actor, movie |-> pk,
                                    seen |-> 1, owner |-> "none", flag |-> FALSE])
                        /\ UNCHANGED <<profiles, nextProfileId>>
                   ELSE PostSave(actor, pk, TRUE, fail, FALSE, FALSE)

\* the places where a PUT of the movie API can be preempted: after get_object(), after
\* Movie.save(), and in the receiver after it read the profile
ApiUpdateSuspends == {"no", "read", "saved", "profile"}

\* MovieRetrieveUpdateDestroyAPIView PUT: get_object(), the serializer, Movie.save(),
\* which commits, then post_save; no transaction
ApiUpdateMovie(actor, pk, data, fail, suspend) ==
    LET gate == StaffApiGate(actor)
    IN  /\ UNCHANGED <<view, reviews, watchlist, nextMovieId, nextReviewId, nextWatchId>>
        /\ IF gate # "ok"
           THEN /\ ~fail /\ suspend = "no"
                /\ Answer(gate)
                /\ UNCHANGED <<movies, profiles, nextProfileId, inflight>>
           ELSE IF ~MovieExists(movies, pk)
           THEN /\ ~fail /\ suspend = "no"
                /\ Answer("not_found")
                /\ UNCHANGED <<movies, profiles, nextProfileId, inflight>>
           ELSE IF ~MovieSerializerValid(data)
           THEN /\ ~fail /\ suspend = "no"
                /\ Answer("invalid")
                /\ UNCHANGED <<movies, profiles, nextProfileId, inflight>>
           ELSE IF suspend = "read"
           THEN /\ ~fail
                /\ Suspend([op |-> "api_update", user |-> actor, movie |-> pk, seen |-> 1,
                            owner |-> "none", flag |-> FALSE])
                /\ UNCHANGED <<movies, profiles, nextProfileId>>
           ELSE /\ movies' = MovieSave(movies, pk, data).movies
                /\ IF suspend = "saved"
                   THEN /\ ~fail
                        /\ Suspend([op |-> "post_save", user |-> actor, movie |-> pk,
                                    seen |-> 0, owner |-> "none", flag |-> FALSE])
                        /\ UNCHANGED <<profiles, nextProfileId>>
                   ELSE PostSave(actor, pk, FALSE, fail, suspend = "profile", FALSE)

\* the PUT preempted after get_object() runs serializer.save(): Movie.save(), then
\* post_save, before and in which it can be preempted again
ApiUpdateResume(data, fail, suspend) ==
    LET pk == inflight.movie
        saved == MovieSave(movies, pk, data)
    IN  /\ inflight.op = "api_update"
        /\ suspend \in {"no", "saved", "profile"}
        /\ MovieSerializerValid(data)
        /\ movies' = saved.movies
        /\ IF suspend = "saved"
           THEN /\ ~fail
                /\ Resuspend([op |-> "post_save", user |-> inflight.user, movie |-> pk,
                              seen |-> IF saved.created THEN 1 ELSE 0, owner |-> "none",
                              flag |-> FALSE])
                /\ UNCHANGED <<profiles, nextProfileId>>
           ELSE PostSave(inflight.user, pk, saved.created, fail, suspend = "profile", TRUE)
        /\ UNCHANGED <<view, reviews, watchlist, nextMovieId, nextReviewId, nextWatchId>>

\* the request preempted after Movie.save() runs the post_save receiver, in which it
\* can be preempted again
PostSaveResume(fail, suspend) ==
    /\ inflight.op = "post_save"
    /\ UNCHANGED <<view, movies, reviews, watchlist, nextMovieId, nextReviewId, nextWatchId>>
    /\ PostSave(inflight.user, inflight.movie, inflight.seen = 1, fail, suspend, TRUE)

\* the receiver preempted after it read the profile runs profile.save(): Model.save()
\* of the row it read
ProfileSaveResume(fail) ==
    LET pk == inflight.movie
        res == ProfileSave(profiles, pk, [id |-> inflight.seen, is_featured |-> inflight.flag])
    IN  /\ inflight.op = "profile_save"
        /\ UNCHANGED <<view, movies, reviews, watchlist, nextMovieId, nextProfileId,
                       nextReviewId, nextWatchId>>
        /\ IF fail \/ ~res.ok \/ ~MovieExists(movies, pk)
           THEN Answer("error") /\ UNCHANGED <<profiles, nextProfileId>>
           ELSE profiles' = res.profiles /\ Answer("ok")
        /\ inflight' = Idle

\* MovieRetrieveUpdateDestroyAPIView DELETE: get_object(), then perform_destroy
\* (instance.delete()), between which the request can be preempted
ApiDeleteMovie(actor, pk, suspend) ==
    LET gate == StaffApiGate(actor)
    IN  /\ UNCHANGED <<view, nextMovieId, nextProfileId, nextReviewId, nextWatchId>>
        /\ IF gate # "ok"
           THEN /\ ~suspend
                /\ Answer(gate)
                /\ UNCHANGED <<movies, profiles, reviews, watchlist, inflight>>
           ELSE IF ~MovieExists(movies, pk)
           THEN /\ ~suspend
                /\ Answer("not_found")
                /\ UNCHANGED <<movies, profiles, reviews, watchlist, inflight>>
           ELSE IF suspend
           THEN /\ Suspend([op |-> "api_delete_movie", user |-> actor, movie |-> pk,
                            seen |-> 0, owner |-> "none", flag |-> FALSE])
                /\ UNCHANGED <<movies, profiles, reviews, watchlist>>
           ELSE /\ CascadeDelete(pk)
                /\ Answer("ok")
                /\ UNCHANGED inflight

\* perform_destroy of the instance fetched
ApiDeleteMovieResume ==
    /\ inflight.op = "api_delete_movie"
    /\ CascadeDelete(inflight.movie)
    /\ Answer("ok")
    /\ inflight' = Idle
    /\ UNCHANGED <<view, nextMovieId, nextProfileId, nextReviewId, nextWatchId>>

\* admin.site.register(Movie, MovieAdmin): the add view, staff only, in one transaction
AdminAddMovie(actor, data, fail) ==
    LET pk == nextMovieId
        sig == create_movie_profile(profiles, pk, TRUE, NoProfile, nextProfileId)
    IN  /\ UNCHANGED <<view, reviews, watchlist, nextReviewId, nextWatchId, inflight>>
        /\ IF ~(is_authenticated(actor) /\ is_staff(actor))
           THEN /\ ~fail
                /\ Answer("redirect")
                /\ UNCHANGED <<movies, profiles, nextProfileId, nextMovieId, nextProfileId>>
           ELSE IF ~MovieFormValid(data)
           THEN /\ ~fail
                /\ Answer("invalid")
                /\ UNCHANGED <<movies, profiles, nextProfileId, nextMovieId, nextProfileId>>
           ELSE /\ pk <= MaxMovieId
                /\ nextProfileId <= MaxProfileId
                /\ IF fail \/ ~sig.ok
                   THEN /\ Answer("error")
                        /\ UNCHANGED <<movies, profiles, nextProfileId, nextMovieId, nextProfileId>>
                   ELSE /\ movies' = MovieInsert(movies, pk, data)
                        /\ profiles' = sig.profiles
                        /\ nextMovieId' = pk + 1
                        /\ nextProfileId' = nextProfileId + 1
                        /\ Answer("ok")

\* admin.site.register(MovieProfile, MovieProfileAdmin): the delete view, staff only
AdminDeleteProfile(actor, pk) ==
    /\ UNCHANGED <<view, movies, reviews, watchlist, nextMovieId, nextProfileId,
                   nextReviewId, nextWatchId, inflight>>
    /\ IF ~(is_authenticated(actor) /\ is_staff(actor))
       THEN Answer("redirect") /\ UNCHANGED <<profiles, nextProfileId>>
       ELSE IF Len(profiles[pk]) = 0
       THEN Answer("not_found") /\ UNCHANGED <<profiles, nextProfileId>>
       ELSE profiles' = [profiles EXCEPT ![pk] = <<>>] /\ Answer("ok")

\* the admin site refuses a user who is not an authenticated staff user
AdminGate(actor) == is_authenticated(actor) /\ is_staff(actor)

\* admin.site.register(Movie, MovieAdmin): the change view, in one transaction
AdminChangeMovie(actor, pk, data, fail) ==
    LET sig == create_movie_profile(profiles, pk, FALSE, ReadProfile(profiles, pk),
                                    nextProfileId)
    IN  /\ UNCHANGED <<view, reviews, watchlist, nextMovieId, nextProfileId, nextReviewId,
                       nextWatchId, inflight>>
        /\ IF ~AdminGate(actor)
           THEN ~fail /\ Answer("redirect") /\ UNCHANGED <<movies, profiles, nextProfileId>>
           ELSE IF ~MovieExists(movies, pk)
           THEN ~fail /\ Answer("not_found") /\ UNCHANGED <<movies, profiles, nextProfileId>>
           ELSE IF ~MovieFormValid(data)
           THEN ~fail /\ Answer("invalid") /\ UNCHANGED <<movies, profiles, nextProfileId>>
           ELSE IF fail \/ ~sig.ok
           THEN Answer("error") /\ UNCHANGED <<movies, profiles, nextProfileId>>
           ELSE /\ movies' = MovieUpdate(movies, pk, data)
                /\ profiles' = sig.profiles
                /\ Answer("ok")

\* admin.site.register(Movie, MovieAdmin): the delete view
AdminDeleteMovie(actor, pk) ==
    /\ UNCHANGED <<view, nextMovieId, nextProfileId, nextReviewId, nextWatchId, inflight>>
    /\ IF ~AdminGate(actor)
       THEN Answer("redirect") /\ UNCHANGED <<movies, profiles, nextProfileId, reviews, watchlist>>
       ELSE IF ~MovieExists(movies, pk)
       THEN Answer("not_found") /\ UNCHANGED <<movies, profiles, nextProfileId, reviews, watchlist>>
       ELSE CascadeDelete(pk) /\ Answer("ok")

\* admin.site.register(MovieProfile, MovieProfileAdmin): the add view; the form
\* offers the existing movies and validates the uniqueness of `movie`
AdminAddProfile(actor, pk, feat) ==
    /\ UNCHANGED <<view, movies, reviews, watchlist, nextMovieId, nextReviewId, nextWatchId,
                   inflight>>
    /\ IF ~AdminGate(actor)
       THEN Answer("redirect") /\ UNCHANGED <<profiles, nextProfileId>>
       ELSE IF ~MovieExists(movies, pk) \/ Len(profiles[pk]) >= 1
       THEN Answer("invalid") /\ UNCHANGED <<profiles, nextProfileId>>
       ELSE /\ nextProfileId <= MaxProfileId
            /\ profiles' = [profiles EXCEPT
                              ![pk] = <<[id |-> nextProfileId, is_featured |-> feat]>>]
            /\ nextProfileId' = nextProfileId + 1
            /\ Answer("ok")

\* admin.site.register(MovieProfile, MovieProfileAdmin): the change view of the
\* profile of movie pk, which sets `movie` (to) and is_featured
AdminChangeProfile(actor, pk, to, feat) ==
    /\ UNCHANGED <<view, movies, reviews, watchlist, nextMovieId, nextProfileId,
                   nextReviewId, nextWatchId, inflight>>
    /\ IF ~AdminGate(actor)
       THEN Answer("redirect") /\ UNCHANGED <<profiles, nextProfileId>>
       ELSE IF Len(profiles[pk]) = 0
       THEN Answer("not_found") /\ UNCHANGED <<profiles, nextProfileId>>
       ELSE IF ~MovieExists(movies, to) \/ (to # pk /\ Len(profiles[to]) >= 1)
       THEN Answer("invalid") /\ UNCHANGED <<profiles, nextProfileId>>
       ELSE /\ profiles' = [[profiles EXCEPT ![pk] = <<>>]
                              EXCEPT ![to] = <<[profiles[pk][1] EXCEPT !.is_featured = feat]>>]
            /\ Answer("ok")

\* ------------------------------------------------------------------ reviews
\* ReviewForm / ReviewSerializer: rating 1..5 (validators), comment not blank
ReviewValid(rating, comment) == rating >= 1 /\ rating <= 5 /\ comment \notin {"", " "}

\* reviews.filter(user=..., movie=...).first(), ordering newest first; 0 for None
FirstReview(rs, u, pk) ==
    LET ids == {r.id : r \in {x \in rs : x.user = u /\ x.movie = pk}}
    IN  IF ids = {} THEN 0 ELSE Max(ids)

\* unique_together = ['user', 'movie'] as the database checks it for the row `row`
ReviewUniqueOk(rs, row) ==
    ~\E r \in rs : r.id # row.id /\ r.user = row.user /\ r.movie = row.movie

\* the INSERT on a table that lacks the unique constraint
ReviewInsert_NoUnique(rs, mv, row) ==
    IF ~MovieExists(mv, row.movie) THEN [status |-> "fk_violation", rows |-> rs]
    ELSE [status |-> "created", rows |-> rs \cup {row}]

\* INSERT INTO review
ReviewInsert(rs, mv, row) ==
    IF ~MovieExists(mv, row.movie) THEN [status |-> "fk_violation", rows |-> rs]
    ELSE IF ~ReviewUniqueOk(rs, row) THEN [status |-> "unique_violation", rows |-> rs]
    ELSE [status |-> "created", rows |-> rs \cup {row}]

\* a save() that writes the rating and leaves the stored comment
ReviewSave_RatingOnly(rs, mv, inst) ==
    IF \E r \in rs : r.id = inst.id
    THEN [status |-> "updated",
          rows |-> {IF r.id = inst.id THEN [r EXCEPT !.rating = inst.rating] ELSE r : r \in rs}]
    ELSE ReviewInsert(rs, mv, inst)

\* Model.save() of an instance that has a pk: UPDATE ... WHERE id = pk, and an
\* INSERT with that pk when the UPDATE matched no row
ReviewSave(rs, mv, inst) ==
    IF \E r \in rs : r.id = inst.id
    THEN IF ~MovieExists(mv, inst.movie) THEN [status |-> "fk_violation", rows |-> rs]
         ELSE IF ~ReviewUniqueOk(rs, inst) THEN [status |-> "unique_violation", rows |-> rs]
         ELSE [status |-> "updated", rows |-> {r \in rs : r.id # inst.id} \cup {inst}]
    ELSE ReviewInsert(rs, mv, inst)

\* review.user = request.user / serializer.save(user=self.request.user): `user` is no
\* field of ReviewForm and a read-only field of ReviewSerializer, so the value a
\* client supplies is dropped
ReviewOwner(requester, supplied) == requester

ReviewReq(u, pk) ==
    [op |-> "review", user |-> u, movie |-> pk, seen |-> FirstReview(reviews, u, pk),
     owner |-> "none", flag |-> FALSE]

\* the write of a review submission: user_review.save() / existing_review.save() when
\* the read found a row, review.save() / serializer.save() / objects.create() otherwise
ReviewWrite(req, inp) ==
    \E supplied \in Users :
      LET row == [id |-> IF req.seen # 0 THEN req.seen ELSE nextReviewId,
                  user |-> ReviewOwner(req.user, supplied), movie |-> req.movie,
                  rating |-> inp[1], comment |-> inp[2]]
          res == IF req.seen # 0 THEN ReviewSave(reviews, movies, row)
                 ELSE ReviewInsert(reviews, movies, row)
      IN  /\ (req.seen = 0 /\ res.status = "created") => nextReviewId <= MaxReviewId
          /\ reviews' = res.rows
          /\ nextReviewId' = IF req.seen = 0 /\ res.status = "created"
                             THEN nextReviewId + 1 ELSE nextReviewId
          /\ Answer(res.status)

\* movie_detail, POST (token_required)
SubmitReview(actor, pk, inp, suspend) ==
    /\ UNCHANGED <<view, movies, profiles, nextProfileId, watchlist, nextMovieId, nextWatchId>>
    /\ IF ~is_authenticated(actor)
       THEN ~suspend /\ Answer("redirect") /\ UNCHANGED <<reviews, nextReviewId, inflight>>
       ELSE IF ~MovieExists(movies, pk)
       THEN ~suspend /\ Answer("not_found") /\ UNCHANGED <<reviews, nextReviewId, inflight>>
       ELSE IF ~ReviewValid(inp[1], inp[2])
       THEN ~suspend /\ Answer("invalid") /\ UNCHANGED <<reviews, nextReviewId, inflight>>
       ELSE IF suspend
       THEN Suspend(ReviewReq(actor, pk)) /\ UNCHANGED <<reviews, nextReviewId>>
       ELSE ReviewWrite(ReviewReq(actor, pk), inp) /\ UNCHANGED inflight

\* the places where a POST of the review API can be preempted: after
\* serializer.is_valid, and after the read of the user's review in perform_create
ApiSubmitSuspends == {"no", "validated", "read"}

\* perform_create: get_object_or_404 of the movie of the URL, the read of the user's
\* review of it, and the write
ApiSubmitCreate(actor, pk, inp, suspend, resumed) ==
    LET done == inflight' = IF resumed THEN Idle ELSE inflight
    IN  IF ~MovieExists(movies, pk)
        THEN ~suspend /\ Answer("not_found") /\ UNCHANGED <<reviews, nextReviewId>> /\ done
        ELSE IF suspend
        THEN Hold(ReviewReq(actor, pk), resumed) /\ UNCHANGED <<reviews, nextReviewId>>
        ELSE ReviewWrite(ReviewReq(actor, pk), inp) /\ done

\* ReviewListCreateAPIView POST: IsAuthenticated, serializer.is_valid (`movie` is a
\* required field of the body, looked up by the serializer), then perform_create
ApiSubmitReview(actor, pk, inp, bodyMovie, suspend) ==
    /\ UNCHANGED <<view, movies, profiles, nextProfileId, watchlist, nextMovieId, nextWatchId>>
    /\ IF ~is_authenticated(actor)
       THEN /\ suspend = "no"
            /\ Answer("not_authenticated")
            /\ UNCHANGED <<reviews, nextReviewId, inflight>>
       ELSE IF ~(ReviewValid(inp[1], inp[2]) /\ MovieExists(movies, bodyMovie))
       THEN /\ suspend = "no"
            /\ Answer("invalid")
            /\ UNCHANGED <<reviews, nextReviewId, inflight>>
       ELSE IF suspend = "validated"
       THEN /\ Suspend([op |-> "api_review", user |-> actor, movie |-> pk, seen |-> 0,
                        owner |-> "none", flag |-> FALSE])
            /\ UNCHANGED <<reviews, nextReviewId>>
       ELSE ApiSubmitCreate(actor, pk, inp, suspend = "read", FALSE)

\* the POST preempted after is_valid goes on with perform_create, in which it can be
\* preempted again
ApiSubmitResume(inp, suspend) ==
    /\ inflight.op = "api_review"
    /\ ReviewValid(inp[1], inp[2])
    /\ UNCHANGED <<view, movies, profiles, nextProfileId, watchlist, nextMovieId, nextWatchId>>
    /\ ApiSubmitCreate(inflight.user, inflight.movie, inp, suspend, TRUE)

\* populate_reviews: one (user, movie) of the loop.  The movies of the loop are the
\* rows Movie.objects.all() gave when the loop began, so that movie pk is one the
\* catalog held then, and may be gone; then exists(), and objects.create() with a
\* rating of 1..5 and one of the sample comments: two statements with no transaction,
\* between which the command can be preempted
PopulateReview(u, pk, inp, suspend) ==
    /\ ReviewValid(inp[1], inp[2])
    /\ pk < nextMovieId
    /\ UNCHANGED <<view, movies, profiles, nextProfileId, watchlist, nextMovieId, nextWatchId>>
    /\ IF FirstReview(reviews, u, pk) # 0
       THEN ~suspend /\ Answer("skipped") /\ UNCHANGED <<reviews, nextReviewId, inflight>>
       ELSE IF suspend
       THEN /\ Suspend([op |-> "populate", user |-> u, movie |-> pk, seen |-> 0,
                        owner |-> "none", flag |-> FALSE])
            /\ UNCHANGED <<reviews, nextReviewId>>
       ELSE ReviewWrite(ReviewReq(u, pk), inp) /\ UNCHANGED inflight

\* the preempted command runs Review.objects.create
PopulateResume(inp) ==
    /\ inflight.op = "populate"
    /\ ReviewValid(inp[1], inp[2])
    /\ ReviewWrite(inflight, inp)
    /\ inflight' = Idle
    /\ UNCHANGED <<view, movies, profiles, nextProfileId, watchlist, nextMovieId, nextWatchId>>

\* the suspended review submission writes
ReviewResume(inp) ==
    /\ inflight.op = "review"
    /\ ReviewValid(inp[1], inp[2])
    /\ ReviewWrite(inflight, inp)
    /\ inflight' = Idle
    /\ UNCHANGED <<view, movies, profiles, nextProfileId, watchlist, nextMovieId, nextWatchId>>

ReviewExists(rs, rid) == \E r \in rs : r.id = rid
GetReview(rs, rid) == CHOOSE r \in rs : r.id = rid

\* request.user == review.user or request.user.is_staff
CanDeleteReview(actor, review) == actor = review.user \/ is_staff(actor)

\* the places where delete_review can be preempted: after get_object_or_404, and
\* after the check of the owner
DeleteReviewSuspends == {"no", "read", "checked"}

\* delete_review from review.movie.pk on, for the row fetched: its id rid, its user
\* `owner` and its movie pk.  review.movie is read (DoesNotExist when the movie is
\* gone), request.user is compared with the user of the row fetched, and
\* review.delete() deletes the row of that id
DeleteReviewCheck(actor, rid, owner, pk, suspend, resumed) ==
    LET done == inflight' = IF resumed THEN Idle ELSE inflight
    IN  IF ~MovieExists(movies, pk)
        THEN ~suspend /\ Answer("error") /\ UNCHANGED reviews /\ done
        ELSE IF ~CanDeleteReview(actor, [user |-> owner])
        THEN ~suspend /\ Answer("refused") /\ UNCHANGED reviews /\ done
        ELSE IF suspend
        THEN /\ Hold([op |-> "delete_review", user |-> actor, movie |-> pk, seen |-> rid,
                      owner |-> owner, flag |-> TRUE], resumed)
             /\ UNCHANGED reviews
        ELSE reviews' = {r \in reviews : r.id # rid} /\ Answer("ok") /\ done

\* delete_review (login_required): the owner or a staff user.  The statements are not
\* in a transaction
DeleteReview(actor, rid, suspend) ==
    /\ UNCHANGED <<view, movies, profiles, nextProfileId, watchlist, nextMovieId, nextReviewId,
                   nextWatchId>>
    /\ IF ~is_authenticated(actor)
       THEN suspend = "no" /\ Answer("redirect") /\ UNCHANGED <<reviews, inflight>>
       ELSE IF ~ReviewExists(reviews, rid)
       THEN suspend = "no" /\ Answer("not_found") /\ UNCHANGED <<reviews, inflight>>
       ELSE IF suspend = "read"
       THEN /\ Suspend([op |-> "delete_review", user |-> actor,
                        movie |-> GetReview(reviews, rid).movie, seen |-> rid,
                        owner |-> GetReview(reviews, rid).user, flag |-> FALSE])
            /\ UNCHANGED reviews
       ELSE DeleteReviewCheck(actor, rid, GetReview(reviews, rid).user,
                              GetReview(reviews, rid).movie, suspend = "checked", FALSE)

\* the preempted delete_review goes on: with the check, after which it can be
\* preempted again, or after the check with review.delete()
DeleteReviewResume(suspend) ==
    /\ inflight.op = "delete_review"
    /\ UNCHANGED <<view, movies, profiles, nextProfileId, watchlist, nextMovieId, nextReviewId,
                   nextWatchId>>
    /\ IF inflight.flag
       THEN /\ ~suspend
            /\ reviews' = {r \in reviews : r.id # inflight.seen}
            /\ Answer("ok")
            /\ inflight' = Idle
       ELSE DeleteReviewCheck(inflight.user, inflight.seen, inflight.owner, inflight.movie,
                              suspend, TRUE)

\* ReviewRetrieveUpdateDestroyAPIView DELETE: get_object, then perform_destroy, which
\* checks the user of the instance fetched and deletes the row of its id
ApiDeleteReview(actor, rid, suspend) ==
    /\ UNCHANGED <<view, movies, profiles, nextProfileId, watchlist, nextMovieId, nextReviewId,
                   nextWatchId>>
    /\ IF ~is_authenticated(actor)
       THEN ~suspend /\ Answer("not_authenticated") /\ UNCHANGED <<reviews, inflight>>
       ELSE IF ~ReviewExists(reviews, rid)
       THEN ~suspend /\ Answer("not_found") /\ UNCHANGED <<reviews, inflight>>
       ELSE IF suspend
       THEN /\ Suspend([op |-> "api_delete_review", user |-> actor,
                        movie |-> GetReview(reviews, rid).movie, seen |-> rid,
                        owner |-> GetReview(reviews, rid).user, flag |-> FALSE])
            /\ UNCHANGED reviews
       ELSE IF GetReview(reviews, rid).user # actor /\ ~is_staff(actor)
       THEN Answer("forbidden") /\ UNCHANGED <<reviews, inflight>>
       ELSE reviews' = {r \in reviews : r.id # rid} /\ Answer("ok") /\ UNCHANGED inflight

\* perform_destroy of the instance fetched
ApiDeleteReviewResume ==
    /\ inflight.op = "api_delete_review"
    /\ UNCHANGED <<view, movies, profiles, nextProfileId, watchlist, nextMovieId, nextReviewId,
                   nextWatchId>>
    /\ IF inflight.owner # inflight.user /\ ~is_staff(inflight.user)
       THEN Answer("forbidden") /\ UNCHANGED reviews
       ELSE reviews' = {r \in reviews : r.id # inflight.seen} /\ Answer("ok")
    /\ inflight' = Idle

\* the places where a PUT of the review API can be preempted: after the get_object()
\* of update(), and after the owner check of perform_update
ReviewUpdateSuspends == {"no", "read", "checked"}

\* ReviewRetrieveUpdateDestroyAPIView PUT from serializer.is_valid on.  The instance
\* of the serializer is the row update() fetched, with the user `owner`;
\* perform_update fetches the row again, checks the owner on what it fetched, and
\* serializer.save() saves the first instance with the rating, comment and movie of
\* the request
ReviewUpdateCheck(actor, rid, owner, inp, bodyMovie, suspend, resumed) ==
    LET inst == [id |-> rid, user |-> owner, movie |-> bodyMovie,
                 rating |-> inp[1], comment |-> inp[2]]
        res == ReviewSave(reviews, movies, inst)
        done == inflight' = IF resumed THEN Idle ELSE inflight
    IN  IF ~(ReviewValid(inp[1], inp[2]) /\ MovieExists(movies, bodyMovie))
        THEN ~suspend /\ Answer("invalid") /\ UNCHANGED reviews /\ done
        ELSE IF ~ReviewExists(reviews, rid)
        THEN ~suspend /\ Answer("not_found") /\ UNCHANGED reviews /\ done
        ELSE IF GetReview(reviews, rid).user # actor
        THEN ~suspend /\ Answer("forbidden") /\ UNCHANGED reviews /\ done
        ELSE IF suspend
        THEN /\ Hold([op |-> "api_review_save", user |-> actor, movie |-> bodyMovie,
                      seen |-> rid, owner |-> owner, flag |-> FALSE], resumed)
             /\ UNCHANGED reviews
        ELSE reviews' = res.rows /\ Answer(res.status) /\ done

\* ReviewRetrieveUpdateDestroyAPIView PUT: get_object, serializer.is_valid,
\* perform_update (get_object again, the owner check, serializer.save()); the
\* serializer writes rating, comment and movie.  The statements are not in a
\* transaction
ApiUpdateReview(actor, rid, inp, bodyMovie, suspend) ==
    /\ UNCHANGED <<view, movies, profiles, nextProfileId, watchlist, nextMovieId,
                   nextReviewId, nextWatchId>>
    /\ IF ~is_authenticated(actor)
       THEN /\ suspend = "no"
            /\ Answer("not_authenticated")
            /\ UNCHANGED <<reviews, inflight>>
       ELSE IF ~ReviewExists(reviews, rid)
       THEN /\ suspend = "no"
            /\ Answer("not_found")
            /\ UNCHANGED <<reviews, inflight>>
       ELSE IF suspend = "read"
       THEN /\ Suspend([op |-> "api_update_review", user |-> actor, movie |-> bodyMovie,
                        seen |-> rid, owner |-> GetReview(reviews, rid).user,
                        flag |-> FALSE])
            /\ UNCHANGED reviews
       ELSE ReviewUpdateCheck(actor, rid, GetReview(reviews, rid).user, inp, bodyMovie,
                              suspend = "checked", FALSE)

\* the PUT preempted after its first get_object() goes on: is_valid, the second
\* get_object() and the owner check, after which it can be preempted again
ApiUpdateReviewCheck(inp, suspend) ==
    /\ inflight.op = "api_update_review"
    /\ UNCHANGED <<view, movies, profiles, nextProfileId, watchlist, nextMovieId,
                   nextReviewId, nextWatchId>>
    /\ ReviewUpdateCheck(inflight.user, inflight.seen, inflight.owner, inp,
                         inflight.movie, suspend, TRUE)

\* the PUT preempted after the owner check runs serializer.save(): Model.save() of
\* the instance update() fetched
ApiUpdateReviewResume(inp) ==
    LET inst == [id |-> inflight.seen, user |-> inflight.owner, movie |-> inflight.movie,
                 rating |-> inp[1], comment |-> inp[2]]
        res == ReviewSave(reviews, movies, inst)
    IN  /\ inflight.op = "api_review_save"
        /\ ReviewValid(inp[1], inp[2])
        /\ reviews' = res.rows
        /\ Answer(res.status)
        /\ inflight' = Idle
        /\ UNCHANGED <<view, movies, profiles, nextProfileId, watchlist, nextMovieId,
                       nextReviewId, nextWatchId>>

\* admin.site.register(Review, ReviewAdmin): the add view; the form validates the
\* fields, the movie and unique_together
AdminAddReview(actor, u, pk, inp) ==
    LET row == [id |-> nextReviewId, user |-> u, movie |-> pk,
                rating |-> inp[1], comment |-> inp[2]]
    IN  /\ UNCHANGED <<view, movies, profiles, nextProfileId, watchlist, nextMovieId, nextWatchId, inflight>>
        /\ IF ~AdminGate(actor)
           THEN Answer("redirect") /\ UNCHANGED <<reviews, nextReviewId>>
           ELSE IF ~(ReviewValid(inp[1], inp[2]) /\ MovieExists(movies, pk)
                     /\ ReviewUniqueOk(reviews, row))
           THEN Answer("invalid") /\ UNCHANGED <<reviews, nextReviewId>>
           ELSE /\ nextReviewId <= MaxReviewId
                /\ reviews' = reviews \cup {row}
                /\ nextReviewId' = nextReviewId + 1
                /\ Answer("created")

\* admin.site.register(Review, ReviewAdmin): the change view, with the fields user,
\* movie, rating and comment
AdminChangeReview(actor, rid, u, pk, inp) ==
    LET row == [id |-> rid, user |-> u, movie |-> pk, rating |-> inp[1], comment |-> inp[2]]
    IN  /\ UNCHANGED <<view, movies, profiles, nextProfileId, watchlist, nextMovieId, nextReviewId,
                       nextWatchId, inflight>>
        /\ IF ~AdminGate(actor)
           THEN Answer("redirect") /\ UNCHANGED reviews
           ELSE IF ~ReviewExists(reviews, rid)
           THEN Answer("not_found") /\ UNCHANGED reviews
           ELSE IF ~(ReviewValid(inp[1], inp[2]) /\ MovieExists(movies, pk)
                     /\ ReviewUniqueOk(reviews, row))
           THEN Answer("invalid") /\ UNCHANGED reviews
           ELSE /\ reviews' = {r \in reviews : r.id # rid} \cup {row}
                /\ Answer("updated")

\* admin.site.register(Review, ReviewAdmin): the delete view
AdminDeleteReview(actor, rid) ==
    /\ UNCHANGED <<view, movies, profiles, nextProfileId, watchlist, nextMovieId, nextReviewId, nextWatchId, inflight>>
    /\ IF ~AdminGate(actor)
       THEN Answer("redirect") /\ UNCHANGED reviews
       ELSE IF ~ReviewExists(reviews, rid)
       THEN Answer("not_found") /\ UNCHANGED reviews
       ELSE reviews' = {r \in reviews : r.id # rid} /\ Answer("ok")

\* populate_reviews --clear: Review.objects.all().delete()
PopulateClear ==
    /\ reviews # {}
    /\ reviews' = {}
    /\ Answer("ok")
    /\ UNCHANGED <<view, movies, profiles, nextProfileId, watchlist, nextMovieId, nextReviewId, nextWatchId, inflight>>

\* ------------------------------------------------------------------ watchlist
\* the (user, movie) pairs on a watchlist
Members(wl) == {<<w.user, w.movie>> : w \in wl}

\* Watchlist.objects.filter(user=..., movie=...).first(); 0 for None
FirstWatch(wl, u, pk) ==
    LET ids == {w.id : w \in {x \in wl : x.user = u /\ x.movie = pk}}
    IN  IF ids = {} THEN 0 ELSE Max(ids)

\* the INSERT on a table that lacks the unique constraint
WatchInsert_NoUnique(wl, mv, row) ==
    IF ~MovieExists(mv, row.movie) THEN [status |-> "fk_violation", rows |-> wl]
    ELSE [status |-> "added", rows |-> wl \cup {row}]

\* Watchlist.objects.create(user=..., movie=...): unique_together = ['user', 'movie']
WatchInsert(wl, mv, row) ==
    IF ~MovieExists(mv, row.movie) THEN [status |-> "fk_violation", rows |-> wl]
    ELSE IF \E w \in wl : w.user = row.user /\ w.movie = row.movie
    THEN [status |-> "unique_violation", rows |-> wl]
    ELSE [status |-> "added", rows |-> wl \cup {row}]

\* a delete() that removes nothing
WatchDelete_Noop(wl, wid) == [status |-> "removed", rows |-> wl]

\* watchlist_item.delete(): DELETE ... WHERE id = pk
WatchDelete(wl, wid) == [status |-> "removed", rows |-> {w \in wl : w.id # wid}]

ToggleReq(u, pk) ==
    [op |-> "toggle", user |-> u, movie |-> pk, seen |-> FirstWatch(watchlist, u, pk),
     owner |-> "none", flag |-> FALSE]

\* toggle_watchlist, the write: delete the row read, or create one
ToggleWrite(req) ==
    LET res == IF req.seen # 0 THEN WatchDelete(watchlist, req.seen)
               ELSE WatchInsert(watchlist, movies,
                                [id |-> nextWatchId, user |-> req.user, movie |-> req.movie])
    IN  /\ res.status = "added" => nextWatchId <= MaxWatchId
        /\ watchlist' = res.rows
        /\ nextWatchId' = IF res.status = "added" THEN nextWatchId + 1 ELSE nextWatchId
        /\ response' = res.status

\* the run of toggles of (u, pk) completed with no other step in between
TogAfter(u, pk) ==
    IF tog.user = u /\ tog.movie = pk /\ tog.count = 1
    THEN [tog EXCEPT !.count = 2]
    ELSE [user |-> u, movie |-> pk, before |-> Members(watchlist), count |-> 1]

\* the places where toggle_watchlist can be preempted: after get_object_or_404 of the
\* movie, and after the read of the watchlist row
ToggleSuspends == {"no", "movie", "read"}

\* toggle_watchlist (login_required).  The statements are not in a transaction
ToggleWatchlist(actor, pk, suspend) ==
    /\ UNCHANGED <<view, movies, profiles, nextProfileId, reviews, nextMovieId, nextReviewId>>
    /\ IF ~is_authenticated(actor)
       THEN /\ suspend = "no"
            /\ Answer("redirect")
            /\ UNCHANGED <<watchlist, nextWatchId, inflight>>
       ELSE IF ~MovieExists(movies, pk)
       THEN /\ suspend = "no"
            /\ Answer("not_found")
            /\ UNCHANGED <<watchlist, nextWatchId, inflight>>
       ELSE IF suspend = "movie"
       THEN /\ Suspend([op |-> "toggle_movie", user |-> actor, movie |-> pk, seen |-> 0,
                        owner |-> "none", flag |-> FALSE])
            /\ UNCHANGED <<watchlist, nextWatchId>>
       ELSE IF suspend = "read"
       THEN Suspend(ToggleReq(actor, pk)) /\ UNCHANGED <<watchlist, nextWatchId>>
       ELSE /\ ToggleWrite(ToggleReq(actor, pk))
            /\ tog' = TogAfter(actor, pk)
            /\ UNCHANGED inflight

\* the toggle preempted after get_object_or_404 reads the watchlist row of the movie
\* it fetched, after which it can be preempted again, and writes
ToggleMovieResume(suspend) ==
    /\ inflight.op = "toggle_movie"
    /\ UNCHANGED <<view, movies, profiles, nextProfileId, reviews, nextMovieId, nextReviewId>>
    /\ IF suspend
       THEN /\ Resuspend(ToggleReq(inflight.user, inflight.movie))
            /\ UNCHANGED <<watchlist, nextWatchId>>
       ELSE /\ ToggleWrite(ToggleReq(inflight.user, inflight.movie))
            /\ tog' = NoTog
            /\ inflight' = Idle

\* the suspended toggle writes
ToggleResume ==
    /\ inflight.op = "toggle"
    /\ ToggleWrite(inflight)
    /\ tog' = NoTog
    /\ inflight' = Idle
    /\ UNCHANGED <<view, movies, profiles, nextProfileId, reviews, nextMovieId, nextReviewId>>

\* admin.site.register(Watchlist, WatchlistAdmin): the add view, with the fields user
\* and movie; the form validates the movie and unique_together
AdminAddWatch(actor, u, pk) ==
    LET row == [id |-> nextWatchId, user |-> u, movie |-> pk]
    IN  /\ UNCHANGED <<view, movies, profiles, nextProfileId, reviews, nextMovieId, nextReviewId, inflight>>
        /\ IF ~AdminGate(actor)
           THEN Answer("redirect") /\ UNCHANGED <<watchlist, nextWatchId>>
           ELSE IF WatchInsert(watchlist, movies, row).status # "added"
           THEN Answer("invalid") /\ UNCHANGED <<watchlist, nextWatchId>>
           ELSE /\ nextWatchId <= MaxWatchId
                /\ watchlist' = watchlist \cup {row}
                /\ nextWatchId' = nextWatchId + 1
                /\ Answer("added")

\* admin.site.register(Watchlist, WatchlistAdmin): the change view
AdminChangeWatch(actor, wid, u, pk) ==
    LET row == [id |-> wid, user |-> u, movie |-> pk]
        rest == {w \in watchlist : w.id # wid}
    IN  /\ UNCHANGED <<view, movies, profiles, nextProfileId, reviews, nextMovieId, nextReviewId,
                       nextWatchId, inflight>>
        /\ IF ~AdminGate(actor)
           THEN Answer("redirect") /\ UNCHANGED watchlist
           ELSE IF ~\E w \in watchlist : w.id = wid
           THEN Answer("not_found") /\ UNCHANGED watchlist
           ELSE IF WatchInsert(rest, movies, row).status # "added"
           THEN Answer("invalid") /\ UNCHANGED watchlist
           ELSE watchlist' = rest \cup {row} /\ Answer("updated")

\* admin.site.register(Watchlist, WatchlistAdmin): the delete view
AdminDeleteWatch(actor, wid) ==
    /\ UNCHANGED <<view, movies, profiles, nextProfileId, reviews, nextMovieId, nextReviewId, nextWatchId,
                   inflight>>
    /\ IF ~AdminGate(actor)
       THEN Answer("redirect") /\ UNCHANGED watchlist
       ELSE IF ~\E w \in watchlist : w.id = wid
       THEN Answer("not_found") /\ UNCHANGED watchlist
       ELSE watchlist' = WatchDelete(watchlist, wid).rows /\ Answer("removed")

\* ------------------------------------------------------------------ queries
\* a number as the quotient n / d; Null is SQL NULL / Python None
Rat(n, d) == [null |-> FALSE, n |-> n, d |-> d]
Null == [null |-> TRUE, n |-> 0, d |-> 1]

\* Meta.ordering = ['-created_at'] / ['-added_at']: the newest row first
RECURSIVE NewestFirst(_)
NewestFirst(rows) ==
    IF rows = {} THEN <<>>
    ELSE LET r == CHOOSE x \in rows : \A y \in rows : y.id <= x.id
         IN  <<r>> \o NewestFirst(rows \ {r})

\* movie.reviews.all()
MovieReviews(rs, pk) == NewestFirst({r \in rs : r.movie = pk})

\* sum(review.rating for review in reviews)
RECURSIVE SumRatings(_)
SumRatings(seq) == IF seq = <<>> THEN 0 ELSE Head(seq).rating + SumRatings(Tail(seq))

\* total / count is a binary float: when the quotient is k / 20 with k odd, halfway
\* between two tenths, the float lies just above or just below it, and round(x, 1)
\* rounds the float.  The k up to 5 * 20 whose float lies above:
FloatTieRoundsUp ==
    {1, 9, 11, 13, 15, 21, 27, 31, 35, 37, 47, 49, 55, 57, 59, 67, 69, 75, 77, 79, 83, 89,
     93, 95, 99}

\* round(total / count, 1), in tenths
Round1(total, count) ==
    LET q == (10 * total) \div count
        rem == (10 * total) % count
    IN  IF 2 * rem > count THEN q + 1
        ELSE IF 2 * rem < count THEN q
        ELSE IF (2 * q + 1) \in FloatTieRoundsUp THEN q + 1 ELSE q

\* Movie.get_average_rating
get_average_rating(rs, pk) ==
    LET seq == MovieReviews(rs, pk)
    IN  IF Len(seq) > 0 THEN Rat(Round1(SumRatings(seq), Len(seq)), 10) ELSE Rat(0, 1)

\* Movie.get_review_count
get_review_count(rs, pk) == Len(MovieReviews(rs, pk))

\* annotate(avg_rating=Avg('reviews__rating')): AVG over no row is NULL
AvgAnnotation(rs, pk) ==
    LET seq == MovieReviews(rs, pk)
    IN  IF Len(seq) = 0 THEN Null ELSE Rat(SumRatings(seq), Len(seq))

\* annotate(review_count=Count('reviews'))
CountAnnotation(rs, pk) == Cardinality({r \in rs : r.movie = pk})

\* watchlist_page: sum(r.rating for r in reviews) / reviews.count(), or 0
WatchlistAverage(rs, pk) ==
    LET seq == MovieReviews(rs, pk)
    IN  IF Len(seq) > 0 THEN Rat(SumRatings(seq), Len(seq)) ELSE Rat(0, 1)

\* Movie.objects.annotate(avg_rating=..., review_count=...)
Annotated(mv, rs) ==
    {[id |-> m.id, release_date |-> m.release_date,
      avg_rating |-> AvgAnnotation(rs, m.id),
      review_count |-> CountAnnotation(rs, m.id)] : m \in mv}

\* the min_rating values a client sends
MinRatings == {"", "0", "4", "3.7", "abc"}

\* float(min_rating): ok = FALSE for ValueError
ParseFloat(str) ==
    CASE str = "0" -> [ok |-> TRUE, n |-> 0, d |-> 1]
      [] str = "4" -> [ok |-> TRUE, n |-> 4, d |-> 1]
      [] str = "3.7" -> [ok |-> TRUE, n |-> 37, d |-> 10]
      [] OTHER -> [ok |-> FALSE, n |-> 0, d |-> 1]

\* avg_rating >= t in SQL: a comparison with NULL is not true
AvgGte(avg, t) == ~avg.null /\ avg.n * t.d >= t.n * avg.d

\* if min_rating: try: filter(avg_rating__gte=float(min_rating)) except ValueError: pass
FilterMinRating(rows, min_rating) ==
    IF min_rating = "" THEN rows
    ELSE LET t == ParseFloat(min_rating)
         IN  IF t.ok THEN {m \in rows : AvgGte(m.avg_rating, t)} ELSE rows

SortKeys == {"newest", "oldest", "best_rated", "worst_rated", "most_reviewed", "least_reviewed"}

\* no secondary key under the rating sorts
order_by_NoSecondary(sort_by) ==
    CASE sort_by = "best_rated" -> <<"-avg_rating">>
      [] sort_by = "worst_rated" -> <<"avg_rating">>
      [] sort_by = "most_reviewed" -> <<"-review_count", "-avg_rating">>
      [] sort_by = "least_reviewed" -> <<"review_count", "-avg_rating">>
      [] sort_by = "oldest" -> <<"release_date">>
      [] OTHER -> <<"-release_date">>

\* the order_by of each sort parameter
order_by(sort_by) ==
    CASE sort_by = "best_rated" -> <<"-avg_rating", "-review_count">>
      [] sort_by = "worst_rated" -> <<"avg_rating", "-review_count">>
      [] sort_by = "most_reviewed" -> <<"-review_count", "-avg_rating">>
      [] sort_by = "least_reviewed" -> <<"review_count", "-avg_rating">>
      [] sort_by = "oldest" -> <<"release_date">>
      [] OTHER -> <<"-release_date">>

Sign(i) == IF i < 0 THEN -1 ELSE IF i > 0 THEN 1 ELSE 0

\* the database's comparison of two averages in ORDER BY
CmpAvg(a, b) ==
    IF a.null /\ b.null THEN 0
    ELSE IF a.null THEN (IF backend = "nulls_smallest" THEN -1 ELSE 1)
    ELSE IF b.null THEN (IF backend = "nulls_smallest" THEN 1 ELSE -1)
    ELSE Sign(a.n * b.d - b.n * a.d)

\* the comparison of two rows on one key of order_by
CmpKey(key, a, b) ==
    CASE key = "avg_rating" -> CmpAvg(a.avg_rating, b.avg_rating)
      [] key = "-avg_rating" -> CmpAvg(b.avg_rating, a.avg_rating)
      [] key = "review_count" -> Sign(a.review_count - b.review_count)
      [] key = "-review_count" -> Sign(b.review_count - a.review_count)
      [] key = "release_date" -> Sign(a.release_date - b.release_date)
      [] OTHER -> Sign(b.release_date - a.release_date)

\* a comes before b on the keys of ORDER BY; neither comes before the other when
\* they tie on every key
RECURSIVE Precedes(_, _, _)
Precedes(keys, a, b) ==
    IF keys = <<>> THEN FALSE
    ELSE LET c == CmpKey(Head(keys), a, b)
         IN  IF c # 0 THEN c < 0 ELSE Precedes(Tail(keys), a, b)

\* the results a query with ORDER BY keys can have: order_by names no primary key,
\* so rows that tie on every key come in any order, which the database chooses in
\* each query
RECURSIVE Orderings(_, _)
Orderings(rows, keys) ==
    IF rows = {} THEN {<<>>}
    ELSE UNION {{<<f>> \o rest : rest \in Orderings(rows \ {f}, keys)} :
                  f \in {x \in rows : \A y \in rows : ~Precedes(keys, y, x)}}

\* Paginator(movies, 6)
PageSize == 6

\* paginator.num_pages: at least one page (allow_empty_first_page)
NumPages(n) == IF n = 0 THEN 1 ELSE (n + PageSize - 1) \div PageSize

\* paginator.get_page(number): a number past the last page gives the last page
PageNumber(number, n) == IF number > NumPages(n) THEN NumPages(n) ELSE number

\* paginator.page(number): object_list[bottom:top], with top no more than
\* paginator.count = n; `seq` is the result of the query of the slice
PageItems(seq, number, n) ==
    LET bottom == (number - 1) * PageSize
        top == IF bottom + PageSize < n THEN bottom + PageSize ELSE n
        hi == IF top < Len(seq) THEN top ELSE Len(seq)
    IN  SubSeq(seq, bottom + 1, hi)

\* the pages of consecutive requests of one query, all read from the same movies and
\* reviews
Walk(rendered, sort_by, min_rating, number, items) ==
    IF /\ context.view = rendered /\ context.sort = sort_by /\ context.min_rating = min_rating
       /\ number = context.first + Len(context.pages)
       /\ context.basis = <<movies, reviews>>
    THEN [first |-> context.first, pages |-> Append(context.pages, items)]
    ELSE [first |-> number, pages |-> <<items>>]

\* the queryset of movie_list: annotate, then the min_rating filter
ListRows(min_rating) == FilterMinRating(Annotated(movies, reviews), min_rating)

\* the template iterates page_obj: the query of the slice, ordered, of page `number`
\* of a paginator whose count was n
RenderList(sort_by, min_rating, number, n) ==
    \E seq \in Orderings(ListRows(min_rating), order_by(sort_by)) :
        LET walk == Walk("movie_list", sort_by, min_rating, number,
                         PageItems(seq, number, n))
        IN  /\ response' = "ok"
            /\ context' = [view |-> "movie_list", sort |-> sort_by,
                           min_rating |-> min_rating, order_by |-> order_by(sort_by),
                           first |-> walk.first, pages |-> walk.pages,
                           num_pages |-> NumPages(n), count |-> n,
                           basis |-> <<movies, reviews>>]

\* movie_list: paginator.get_page counts the rows of the queryset; the page is read
\* when it is rendered, at once or, with `suspend`, in a later step
movie_list(actor, sort_by, min_rating, page, suspend) ==
    /\ UNCHANGED <<movies, profiles, nextProfileId, reviews, watchlist, nextMovieId, nextReviewId,
                   nextWatchId, tog, session, now, backend>>
    /\ IF ~is_authenticated(actor)
       THEN ~suspend /\ response' = "redirect" /\ UNCHANGED <<context, inflight>>
       ELSE LET n == Cardinality(ListRows(min_rating))
                number == PageNumber(page, n)
            IN  IF suspend
                THEN SuspendRead(ReadReq("movie_list", actor, 0, FALSE,
                                         [sort |-> sort_by, min_rating |-> min_rating,
                                          page |-> number, count |-> n]))
                ELSE /\ inflight.op \notin ReadOps
                     /\ RenderList(sort_by, min_rating, number, n)
                     /\ UNCHANGED inflight

\* movie_list goes on after the count: the page is read from the rows of now
ListResume ==
    /\ inflight.op = "movie_list"
    /\ UNCHANGED <<movies, profiles, nextProfileId, reviews, watchlist, nextMovieId, nextReviewId,
                   nextWatchId, tog, session, now, backend>>
    /\ RenderList(inflight.data.sort, inflight.data.min_rating, inflight.data.page,
                  inflight.data.count)
    /\ inflight' = Idle

\* Watchlist.objects.filter(user=...).select_related('movie'): the movies of the
\* user's watchlist, read with its rows in one query
WatchlistMovies(actor) ==
    LET items == NewestFirst({w \in watchlist : w.user = actor})
    IN  [i \in 1..Len(items) |-> CHOOSE x \in movies : x.id = items[i].movie]

\* the loop of watchlist_page, for k movies of `todo`: reviews.exists(), then the
\* rows of reviews, which reviews.count() counts; `checked` says that exists() of the
\* first movie was read before, as true.  ok = FALSE: no row is left of the reviews
\* that existed, and sum(...) / reviews.count() raises ZeroDivisionError
RECURSIVE WatchLoop(_, _, _, _)
WatchLoop(todo, done, checked, k) ==
    IF k = 0 \/ todo = <<>> THEN [ok |-> TRUE, todo |-> todo, done |-> done]
    ELSE LET m == Head(todo)
             row == [id |-> m.id, release_date |-> m.release_date,
                     avg_rating |-> WatchlistAverage(reviews, m.id),
                     review_count |-> get_review_count(reviews, m.id)]
         IN  IF checked /\ MovieReviews(reviews, m.id) = <<>>
             THEN [ok |-> FALSE, todo |-> todo, done |-> done]
             ELSE WatchLoop(Tail(todo), Append(done, row), FALSE, k - 1)

\* where watchlist_page is preempted after k movies: not at all, before the exists()
\* of the next movie, or after it
WatchStops == {"no", "query", "exists"}

\* watchlist_page from `todo` on; `after` is the suspended request once it completes
WatchRun(actor, todo, done, checked, k, stop, after) ==
    LET run == WatchLoop(todo, done, checked, IF stop = "no" THEN Len(todo) ELSE k)
    IN  IF ~run.ok
        THEN response' = "error" /\ inflight' = after /\ UNCHANGED context
        ELSE IF stop = "no"
        THEN /\ response' = "ok"
             /\ inflight' = after
             /\ context' = [view |-> "watchlist", sort |-> "none", min_rating |-> "",
                            order_by |-> <<>>, first |-> 1, pages |-> <<run.done>>,
                            num_pages |-> 1, count |-> Len(run.done),
                            basis |-> <<movies, reviews>>]
        ELSE /\ run.todo # <<>>
             /\ stop = "exists" => MovieReviews(reviews, Head(run.todo).id) # <<>>
             /\ inflight' = ReadReq("watchlist_page", actor, 0, stop = "exists",
                                    [todo |-> run.todo, done |-> run.done])
             /\ context' = NoContext
             /\ UNCHANGED response

\* watchlist_page: the user's watchlist movies, each with avg_rating and review_count
watchlist_page(actor, k, stop) ==
    /\ UNCHANGED <<movies, profiles, nextProfileId, reviews, watchlist, nextMovieId, nextReviewId,
                   nextWatchId, tog, session, now, backend>>
    /\ IF ~is_authenticated(actor)
       THEN stop = "no" /\ response' = "redirect" /\ UNCHANGED <<context, inflight>>
       ELSE /\ IF stop = "no" THEN inflight.op \notin ReadOps ELSE inflight = Idle
            /\ WatchRun(actor, WatchlistMovies(actor), <<>>, FALSE, k, stop, inflight)

\* watchlist_page goes on with its loop, k movies more or to the end
WatchResume(k, stop) ==
    /\ inflight.op = "watchlist_page"
    /\ stop # "no" => (k > 0 \/ (stop = "exists" /\ ~inflight.flag))
    /\ UNCHANGED <<movies, profiles, nextProfileId, reviews, watchlist, nextMovieId, nextReviewId,
                   nextWatchId, tog, session, now, backend>>
    /\ WatchRun(inflight.user, inflight.data.todo, inflight.data.done, inflight.flag,
                k, stop, Idle)

\* where the two calls are preempted: not at all, after reviews.exists() was true,
\* or after get_average_rating returned
RatingStops == {"no", "exists", "average"}

\* the average and the count of movie m are reported; get_review_count counts now
RenderRating(pk, avg) ==
    /\ response' = "ok"
    /\ context' = [view |-> "movie", sort |-> "none", min_rating |-> "",
                   order_by |-> <<>>, first |-> 1,
                   pages |-> << <<[id |-> pk, avg_rating |-> avg,
                                   review_count |-> get_review_count(reviews, pk)]>> >>,
                   num_pages |-> 1, count |-> 1, basis |-> <<movies, reviews>>]

\* movie.get_average_rating() and movie.get_review_count() of a Movie instance with
\* primary key pk: both query the reviews only, whether or not the movie's row is
\* still there
movie_rating(pk, stop) ==
    /\ UNCHANGED <<movies, profiles, nextProfileId, reviews, watchlist, nextMovieId, nextReviewId,
                   nextWatchId, tog, session, now, backend>>
    /\ CASE stop = "exists" ->
               /\ MovieReviews(reviews, pk) # <<>>
               /\ SuspendRead(ReadReq("movie_rating", "none", pk, FALSE, [avg |-> Null]))
          [] stop = "average" ->
               SuspendRead(ReadReq("movie_rating", "none", pk, TRUE,
                                   [avg |-> get_average_rating(reviews, pk)]))
          [] OTHER ->
               /\ inflight.op \notin ReadOps
               /\ RenderRating(pk, get_average_rating(reviews, pk))
               /\ UNCHANGED inflight

\* get_average_rating goes on after exists() with the rows of now, which count()
\* counts: total / 0 raises ZeroDivisionError when none is left; or get_review_count
\* follows the average
RatingResume(stop) ==
    /\ inflight.op = "movie_rating"
    /\ stop \in {"no", "average"}
    /\ UNCHANGED <<movies, profiles, nextProfileId, reviews, watchlist, nextMovieId, nextReviewId,
                   nextWatchId, tog, session, now, backend>>
    /\ IF inflight.flag
       THEN /\ stop = "no"
            /\ RenderRating(inflight.movie, inflight.data.avg)
            /\ inflight' = Idle
       ELSE IF MovieReviews(reviews, inflight.movie) = <<>>
       THEN response' = "error" /\ inflight' = Idle /\ UNCHANGED context
       ELSE IF stop = "average"
       THEN /\ inflight' = [inflight EXCEPT !.flag = TRUE,
                              !.data.avg = get_average_rating(reviews, inflight.movie)]
            /\ UNCHANGED <<response, context>>
       ELSE /\ RenderRating(inflight.movie, get_average_rating(reviews, inflight.movie))
            /\ inflight' = Idle

\* ------------------------------------------------------------------ sessions
TOKEN_MAX_AGE == 60 * 60

\* the time ends at MaxClock; it advances by one of Ticks
MaxClock == 3601
Ticks == {TOKEN_MAX_AGE, TOKEN_MAX_AGE + 1}

\* validate_token: signer.unsign(token, max_age=TOKEN_MAX_AGE) raises SignatureExpired
\* when the age of the token is greater than max_age
validate_token(token, t) == token # -1 /\ t - token <= TOKEN_MAX_AGE

\* token_required: the login check, then the token check
token_required(sess, t) ==
    IF ~is_authenticated(sess.user) THEN "redirect"
    ELSE IF ~validate_token(sess.token, t) THEN "expired"
    ELSE "ok"

\* CustomLoginView.form_valid: login, and a token signed now is put in the session
Login(u) ==
    /\ session' = [user |-> u, token |-> now]
    /\ Answer("ok")
    /\ UNCHANGED <<movies, profiles, nextProfileId, reviews, watchlist, nextMovieId, nextReviewId,
                   nextWatchId, inflight, now, context, backend>>

\* the login page of the admin site: auth.login of a staff user, which keeps the
\* session data (the auth_token) when the session is already the same user's, and
\* starts a session with no auth_token otherwise
AdminLogin ==
    /\ session' = IF session.user = "staff" THEN session
                  ELSE [user |-> "staff", token |-> -1]
    /\ Answer("ok")
    /\ UNCHANGED <<movies, profiles, nextProfileId, reviews, watchlist, nextMovieId, nextReviewId,
                   nextWatchId, inflight, now, context, backend>>

\* LogoutView: logout(request) flushes the session
Logout ==
    /\ session' = NoSession
    /\ Answer("ok")
    /\ UNCHANGED <<movies, profiles, nextProfileId, reviews, watchlist, nextMovieId, nextReviewId,
                   nextWatchId, inflight, now, context, backend>>

\* time passes
Tick(d) ==
    /\ now + d <= MaxClock
    /\ now' = now + d
    /\ UNCHANGED <<movies, profiles, nextProfileId, reviews, watchlist, nextMovieId, nextReviewId,
                   nextWatchId, inflight, response, tog, session, context, backend>>

\* token_required, token absent or expired: logout(request), session.flush(), redirect
SessionExpired ==
    /\ session' = NoSession
    /\ Answer("session_expired")
    /\ UNCHANGED <<movies, profiles, nextProfileId, reviews, watchlist, nextMovieId, nextReviewId,
                   nextWatchId, inflight, now, context, backend>>

\* the browser routes, requested in the session
BrowseMovieList(sort_by, min_rating, page) ==
    IF token_required(session, now) = "expired" THEN SessionExpired
    ELSE movie_list(session.user, sort_by, min_rating, page, FALSE)

BrowseSubmitReview(pk, inp) ==
    IF token_required(session, now) = "expired" THEN SessionExpired
    ELSE SubmitReview(session.user, pk, inp, FALSE)

BrowseWatchlistPage ==
    IF token_required(session, now) = "expired" THEN SessionExpired
    ELSE watchlist_page(session.user, 0, "no")

BrowseToggleWatchlist(pk) == ToggleWatchlist(session.user, pk, "no")
BrowseDeleteReview(rid) == DeleteReview(session.user, rid, "no")
BrowseAddMovie(data) == AddMovie(session.user, data, FALSE, FALSE)
BrowseUpdateMovie(pk, data) == UpdateMovie(session.user, pk, data, FALSE, FALSE, "no")
BrowseDeleteMovie(pk) == DeleteMovie(session.user, pk, FALSE)

\* ------------------------------------------------------------------ specifications
CatalogNext ==
    \/ \E a \in Actors, d \in CatalogInputs, f \in BOOLEAN, x \in BOOLEAN : AddMovie(a, d, f, x)
    \/ \E a \in Actors, pk \in MovieIds, d \in CatalogInputs, f \in BOOLEAN, x \in BOOLEAN,
          z \in UpdateSuspends : UpdateMovie(a, pk, d, f, x, z)
    \/ \E d \in CatalogInputs, f \in BOOLEAN, x \in BOOLEAN, z \in BOOLEAN :
          UpdateResume(d, f, x, z)
    \/ \E a \in Actors, pk \in MovieIds, z \in BOOLEAN : DeleteMovie(a, pk, z)
    \/ DeleteMovieResume
    \/ \E a \in Actors, d \in CatalogInputs, x \in BOOLEAN, z \in BOOLEAN :
          ApiCreateMovie(a, d, x, z)
    \/ \E a \in Actors, pk \in MovieIds, d \in CatalogInputs, x \in BOOLEAN,
          z \in ApiUpdateSuspends : ApiUpdateMovie(a, pk, d, x, z)
    \/ \E d \in CatalogInputs, x \in BOOLEAN, z \in ApiUpdateSuspends :
          ApiUpdateResume(d, x, z)
    \/ \E x \in BOOLEAN, z \in BOOLEAN : PostSaveResume(x, z)
    \/ \E x \in BOOLEAN : ProfileSaveResume(x)
    \/ \E a \in Actors, pk \in MovieIds, z \in BOOLEAN : ApiDeleteMovie(a, pk, z)
    \/ ApiDeleteMovieResume
    \/ \E a \in Actors, d \in CatalogInputs, x \in BOOLEAN : AdminAddMovie(a, d, x)
    \/ \E a \in Actors, pk \in MovieIds : AdminDeleteProfile(a, pk)
    \/ \E a \in Actors, pk \in MovieIds, d \in CatalogInputs, x \in BOOLEAN :
          AdminChangeMovie(a, pk, d, x)
    \/ \E a \in Actors, pk \in MovieIds : AdminDeleteMovie(a, pk)
    \/ \E a \in Actors, pk \in MovieIds, f \in BOOLEAN : AdminAddProfile(a, pk, f)
    \/ \E a \in Actors, pk \in MovieIds, to \in MovieIds, f \in BOOLEAN :
          AdminChangeProfile(a, pk, to, f)

\* the callers who are not staff send every create, update and delete request of the
\* browser views and of the movie API, while a staff user sends them too and is
\* preempted wherever a request can be
NonStaffActors == {a \in Actors : ~is_staff(a)}

AccessNext ==
    \/ \E a \in NonStaffActors, d \in CatalogInputs, f \in BOOLEAN, x \in BOOLEAN :
          AddMovie(a, d, f, x)
    \/ \E a \in NonStaffActors, pk \in MovieIds, d \in CatalogInputs, f \in BOOLEAN,
          x \in BOOLEAN, z \in UpdateSuspends : UpdateMovie(a, pk, d, f, x, z)
    \/ \E a \in Actors, pk \in MovieIds, z \in BOOLEAN : DeleteMovie(a, pk, z)
    \/ DeleteMovieResume
    \/ \E a \in NonStaffActors, d \in CatalogInputs, x \in BOOLEAN, z \in BOOLEAN :
          ApiCreateMovie(a, d, x, z)
    \/ \E a \in NonStaffActors, pk \in MovieIds, d \in CatalogInputs, x \in BOOLEAN,
          z \in ApiUpdateSuspends : ApiUpdateMovie(a, pk, d, x, z)
    \/ \E a \in Actors, pk \in MovieIds, z \in BOOLEAN : ApiDeleteMovie(a, pk, z)
    \/ ApiDeleteMovieResume
    \/ \E d \in CatalogInputs : AddMovie("staff", d, FALSE, FALSE)
    \/ \E pk \in MovieIds, d \in CatalogInputs, z \in UpdateSuspends :
          UpdateMovie("staff", pk, d, FALSE, FALSE, z)
    \/ \E d \in CatalogInputs, z \in BOOLEAN : UpdateResume(d, FALSE, FALSE, z)
    \/ \E d \in CatalogInputs, z \in BOOLEAN : ApiCreateMovie("staff", d, FALSE, z)
    \/ \E pk \in MovieIds, d \in CatalogInputs, z \in ApiUpdateSuspends :
          ApiUpdateMovie("staff", pk, d, FALSE, z)
    \/ \E d \in CatalogInputs, z \in ApiUpdateSuspends : ApiUpdateResume(d, FALSE, z)
    \/ \E z \in BOOLEAN : PostSaveResume(FALSE, z)
    \/ ProfileSaveResume(FALSE)

\* the requests sent to the admin site: by a staff member and by a user who is not
\* one, with one form that validates and one that does not
AdminActors == {"staff", "alice"}
AdminInputs == { <<2, "dull">>, <<0, "good">> }

\* the (rating, comment) pairs of the PUT requests of the review API: a valid and an
\* invalid one
PutInputs == { <<2, "dull">>, <<0, "good">> }

\* the (rating, comment) pairs of the review and frame specifications: a valid and
\* an invalid one
FrameInputs == { <<4, "good">>, <<0, "good">> }

\* every caller sends every request of the review handlers, and the populate command
\* runs.  The requests that are preempted, at each place where they can be, are those
\* of alice, who stands for a user without staff rights, and the two deletes of the
\* staff user, the only handlers that treat a staff user differently
ReviewNext ==
    \/ \E a \in Actors, pk \in MovieIds, inp \in FrameInputs :
          SubmitReview(a, pk, inp, FALSE)
    \/ \E pk \in MovieIds, inp \in FrameInputs : SubmitReview("alice", pk, inp, TRUE)
    \/ \E inp \in FrameInputs : ReviewResume(inp)
    \/ \E a \in Actors, pk \in MovieIds, inp \in FrameInputs :
          ApiSubmitReview(a, pk, inp, pk, "no")
    \/ \E pk \in MovieIds, inp \in FrameInputs, z \in {"validated", "read"} :
          ApiSubmitReview("alice", pk, inp, pk, z)
    \/ \E inp \in FrameInputs, z \in BOOLEAN : ApiSubmitResume(inp, z)
    \/ \E u \in Users, pk \in MovieIds, inp \in FrameInputs, z \in BOOLEAN :
          PopulateReview(u, pk, inp, z)
    \/ \E inp \in FrameInputs : PopulateResume(inp)
    \/ \E a \in Actors, rid \in ReviewIds : DeleteReview(a, rid, "no")
    \/ \E a \in {"alice", "staff"}, rid \in ReviewIds, z \in {"read", "checked"} :
          DeleteReview(a, rid, z)
    \/ \E z \in BOOLEAN : DeleteReviewResume(z)
    \/ \E a \in Actors, rid \in ReviewIds : ApiDeleteReview(a, rid, FALSE)
    \/ \E a \in {"alice", "staff"}, rid \in ReviewIds : ApiDeleteReview(a, rid, TRUE)
    \/ ApiDeleteReviewResume
    \/ \E a \in Actors, rid \in ReviewIds, inp \in PutInputs, bm \in MovieIds :
          ApiUpdateReview(a, rid, inp, bm, "no")
    \/ \E rid \in ReviewIds, inp \in PutInputs, bm \in MovieIds, z \in {"read", "checked"} :
          ApiUpdateReview("alice", rid, inp, bm, z)
    \/ \E inp \in PutInputs, z \in BOOLEAN : ApiUpdateReviewCheck(inp, z)
    \/ \E inp \in PutInputs : ApiUpdateReviewResume(inp)
    \/ PopulateClear

\* users submit and resubmit reviews, in the browser and over the API, and delete
\* them; the requests of alice, and the deletes of the staff user, are preempted at
\* each place where they can be
ResubmitNext ==
    \/ \E a \in Actors, pk \in MovieIds, inp \in ReviewInputs :
          SubmitReview(a, pk, inp, FALSE)
    \/ \E pk \in MovieIds, inp \in ReviewInputs : SubmitReview("alice", pk, inp, TRUE)
    \/ \E inp \in ReviewInputs : ReviewResume(inp)
    \/ \E a \in Actors, pk \in MovieIds, inp \in ReviewInputs :
          ApiSubmitReview(a, pk, inp, pk, "no")
    \/ \E pk \in MovieIds, inp \in ReviewInputs, z \in {"validated", "read"} :
          ApiSubmitReview("alice", pk, inp, pk, z)
    \/ \E inp \in ReviewInputs, z \in BOOLEAN : ApiSubmitResume(inp, z)
    \/ \E a \in Actors, rid \in ReviewIds : DeleteReview(a, rid, "no")
    \/ \E a \in {"alice", "staff"}, rid \in ReviewIds, z \in {"read", "checked"} :
          DeleteReview(a, rid, z)
    \/ \E z \in BOOLEAN : DeleteReviewResume(z)

\* the Review pages of the admin site
AdminReviewNext ==
    \/ \E a \in AdminActors, u \in Users, pk \in MovieIds, inp \in AdminInputs :
          AdminAddReview(a, u, pk, inp)
    \/ \E a \in AdminActors, rid \in ReviewIds, u \in Users, pk \in MovieIds,
          inp \in AdminInputs : AdminChangeReview(a, rid, u, pk, inp)
    \/ \E a \in AdminActors, rid \in ReviewIds : AdminDeleteReview(a, rid)

WatchNext ==
    \/ \E a \in Actors, pk \in MovieIds, z \in ToggleSuspends : ToggleWatchlist(a, pk, z)
    \/ \E z \in BOOLEAN : ToggleMovieResume(z)
    \/ ToggleResume
    \/ \E a \in AdminActors, u \in Users, pk \in MovieIds : AdminAddWatch(a, u, pk)
    \/ \E a \in AdminActors, wid \in 1..MaxWatchId, u \in Users, pk \in MovieIds :
          AdminChangeWatch(a, wid, u, pk)
    \/ \E a \in AdminActors, wid \in 1..MaxWatchId : AdminDeleteWatch(a, wid)

\* the catalog as the review and watchlist handlers see it: a staff user adds and
\* deletes movies
StaffNext ==
    \/ AddMovie("staff", StaffMovie, FALSE, FALSE)
    \/ \E pk \in MovieIds : DeleteMovie("staff", pk, FALSE)

\* the catalog of the list specification: MaxListMovies movies, one more than a
\* page holds.  The reviews of a movie are one of RatingProfiles, its ratings in the
\* order of insertion, by the users of Reviewers in turn.  The first FreeListMovies
\* movies take every profile, the others the profile their id selects.
MaxListMovies == 7
FreeListMovies == 1
ListMovieIds == 1..MaxListMovies
RatingProfiles == << <<>>, <<4>>, <<2>>, <<4, 4>>, <<3, 4, 4>>, <<4, 4, 3>> >>
Reviewers == <<"alice", "bob", "staff">>
ListPages == {1, 2}

ProfileOf(f, pk) ==
    IF pk <= FreeListMovies THEN RatingProfiles[f[pk]]
    ELSE RatingProfiles[(pk % Len(RatingProfiles)) + 1]

ListReviews(f) ==
    UNION {{[id |-> (pk - 1) * Len(Reviewers) + i, user |-> Reviewers[i], movie |-> pk,
             rating |-> ProfileOf(f, pk)[i], comment |-> "good"] :
               i \in 1..Len(ProfileOf(f, pk))} : pk \in ListMovieIds}

InitList ==
    /\ movies = {MovieRow(pk, [StaffMovie EXCEPT
                                !.release_date = Today - 1 - (pk % (MaxListMovies - 1))]) :
                   pk \in ListMovieIds}
    /\ profiles = [pk \in ListMovieIds |-> <<[id |-> pk, is_featured |-> FALSE]>>]
    /\ \E f \in [1..FreeListMovies -> 1..Len(RatingProfiles)] : reviews = ListReviews(f)
    /\ watchlist = {[id |-> pk, user |-> "alice", movie |-> pk] : pk \in ListMovieIds}
    /\ nextMovieId = MaxListMovies + 1
    /\ nextProfileId = MaxListMovies + 1
    /\ nextReviewId = MaxListMovies * Len(Reviewers) + 1
    /\ nextWatchId = MaxListMovies + 1
    /\ inflight = Idle
    /\ response = "none"
    /\ tog = NoTog
    /\ session = [user |-> "alice", token |-> 0]
    /\ now = 0
    /\ context = NoContext
    /\ backend \in Backends

ListNext ==
    \/ \E srt \in SortKeys, mr \in MinRatings, page \in ListPages, s \in BOOLEAN :
          movie_list("alice", srt, mr, page, s)
    \/ ListResume
    \/ movie_list(Anon, "newest", "", 1, FALSE)
    \/ \E a \in {"alice", Anon}, k \in 0..MaxListMovies, stop \in WatchStops :
          watchlist_page(a, k, stop)
    \/ \E k \in 0..MaxListMovies, stop \in WatchStops : WatchResume(k, stop)
    \/ \E pk \in ListMovieIds, stop \in RatingStops : movie_rating(pk, stop)
    \/ \E stop \in RatingStops : RatingResume(stop)

\* the lists while a staff user deletes reviews on the admin site
RaceMinRatings == {"", "4"}

ListRaceNext ==
    \/ \E srt \in SortKeys, mr \in RaceMinRatings, page \in ListPages, s \in BOOLEAN :
          movie_list("alice", srt, mr, page, s)
    \/ ListResume
    \/ \E k \in 0..MaxListMovies, stop \in WatchStops : watchlist_page("alice", k, stop)
    \/ \E k \in 0..MaxListMovies, stop \in WatchStops : WatchResume(k, stop)
    \/ \E pk \in ListMovieIds, stop \in RatingStops : movie_rating(pk, stop)
    \/ \E stop \in RatingStops : RatingResume(stop)
    \/ \E rid \in ReviewIds : AdminDeleteReview("staff", rid)

\* a staff user sends every body of MovieInputs through the forms, the API and the
\* admin site; a user sends every pair of ReviewInputs
ValidateNext ==
    \/ \E d \in MovieInputs : AddMovie("staff", d, FALSE, FALSE)
    \/ \E pk \in MovieIds, d \in MovieInputs : UpdateMovie("staff", pk, d, FALSE, FALSE, "no")
    \/ \E d \in MovieInputs : ApiCreateMovie("staff", d, FALSE, FALSE)
    \/ \E pk \in MovieIds, d \in MovieInputs : ApiUpdateMovie("staff", pk, d, FALSE, "no")
    \/ \E d \in MovieInputs : AdminAddMovie("staff", d, FALSE)
    \/ \E pk \in MovieIds, inp \in ReviewInputs : SubmitReview("alice", pk, inp, FALSE)
    \/ \E pk \in MovieIds, inp \in ReviewInputs : ApiSubmitReview("alice", pk, inp, pk, "no")
    \/ \E rid \in ReviewIds, inp \in ReviewInputs, bm \in MovieIds :
          ApiUpdateReview("alice", rid, inp, bm, "no")

\* a staff user adds and deletes movies, in the browser and over the API, and gives
\* reviews to other users on the admin site, while two users review the movies, delete
\* their reviews and put the movies on their watchlists; every request is preempted
\* wherever it can be
CascadeUsers == {"alice", "bob"}

CascadeNext ==
    \/ StaffNext
    \/ \E pk \in MovieIds : DeleteMovie("staff", pk, TRUE)
    \/ DeleteMovieResume
    \/ \E pk \in MovieIds, z \in BOOLEAN : ApiDeleteMovie("staff", pk, z)
    \/ ApiDeleteMovieResume
    \/ \E pk \in MovieIds : AdminDeleteMovie("staff", pk)
    \/ \E a \in CascadeUsers, pk \in MovieIds, z \in BOOLEAN :
          SubmitReview(a, pk, <<4, "good">>, z)
    \/ ReviewResume(<<4, "good">>)
    \/ \E a \in CascadeUsers, pk \in MovieIds, z \in ApiSubmitSuspends :
          ApiSubmitReview(a, pk, <<4, "good">>, pk, z)
    \/ \E z \in BOOLEAN : ApiSubmitResume(<<4, "good">>, z)
    \/ \E a \in CascadeUsers, rid \in ReviewIds, z \in DeleteReviewSuspends :
          DeleteReview(a, rid, z)
    \/ \E z \in BOOLEAN : DeleteReviewResume(z)
    \/ \E rid \in ReviewIds, z \in BOOLEAN : ApiDeleteReview("alice", rid, z)
    \/ ApiDeleteReviewResume
    \/ \E r \in reviews, u \in CascadeUsers :
          AdminChangeReview("staff", r.id, u, r.movie, <<4, "good">>)
    \/ \E a \in CascadeUsers, pk \in MovieIds, z \in ToggleSuspends :
          ToggleWatchlist(a, pk, z)
    \/ \E z \in BOOLEAN : ToggleMovieResume(z)
    \/ ToggleResume

\* the users who are not staff
NonStaff == {u \in Users : ~is_staff(u)}

\* non-staff users review movies, in the browser and over the API, and toggle their
\* watchlists, while a staff user adds and deletes movies and, on the admin site,
\* edits reviews and watchlist entries
FrameNext ==
    \/ StaffNext
    \/ \E a \in NonStaff, pk \in MovieIds, inp \in FrameInputs, z \in BOOLEAN :
          SubmitReview(a, pk, inp, z)
    \/ \E a \in NonStaff, pk \in MovieIds, inp \in FrameInputs, bm \in MovieIds,
          z \in ApiSubmitSuspends : ApiSubmitReview(a, pk, inp, bm, z)
    \/ \E inp \in FrameInputs, z \in BOOLEAN : ApiSubmitResume(inp, z)
    \/ \E inp \in FrameInputs : ReviewResume(inp)
    \/ \E a \in NonStaff, pk \in MovieIds, z \in ToggleSuspends : ToggleWatchlist(a, pk, z)
    \/ \E z \in BOOLEAN : ToggleMovieResume(z)
    \/ ToggleResume
    \/ \E rid \in ReviewIds, u \in NonStaff, pk \in MovieIds :
          AdminChangeReview("staff", rid, u, pk, <<2, "dull">>)
    \/ \E wid \in 1..MaxWatchId, u \in NonStaff, pk \in MovieIds :
          AdminChangeWatch("staff", wid, u, pk)

SessionNext ==
    \/ Login("staff")
    \/ Logout
    \/ AdminLogin
    \/ \E d \in Ticks : Tick(d)
    \/ BrowseMovieList("newest", "", 1)
    \/ \E pk \in MovieIds : BrowseSubmitReview(pk, <<4, "good">>)
    \/ BrowseWatchlistPage
    \/ \E pk \in MovieIds : BrowseToggleWatchlist(pk)
    \/ \E rid \in ReviewIds : BrowseDeleteReview(rid)
    \/ BrowseAddMovie(StaffMovie)
    \/ \E pk \in MovieIds : BrowseUpdateMovie(pk, StaffMovie)
    \/ \E pk \in MovieIds : BrowseDeleteMovie(pk)

Next ==
    CatalogNext \/ AccessNext \/ ReviewNext \/ ResubmitNext \/ AdminReviewNext \/ WatchNext
        \/ ListNext \/ ListRaceNext \/ SessionNext \/ ValidateNext \/ CascadeNext \/ FrameNext

Spec == Init /\ [][Next]_vars

SpecCatalog == InitEmpty /\ [][CatalogNext]_vars
SpecAccess == InitEmpty /\ [][AccessNext]_vars
SpecReview == InitEmpty /\ [][StaffNext \/ ReviewNext \/ AdminReviewNext]_vars
SpecResubmit == InitEmpty /\ [][StaffNext \/ ResubmitNext]_vars
SpecWatch == InitEmpty /\ [][StaffNext \/ WatchNext]_vars
SpecList == InitList /\ [][ListNext]_vars
SpecListRace == InitList /\ [][ListRaceNext]_vars
SpecSession == InitEmpty /\ [][SessionNext]_vars
SpecValidate == InitEmpty /\ [][ValidateNext]_vars
SpecCascade == InitEmpty /\ [][CascadeNext]_vars
SpecFrame == InitEmpty /\ [][FrameNext]_vars
\* ------------------------------------------------------------------ properties
\* C1: in every reachable state there is at most one Review row for each
\* (user, movie) pair.
C1_OneReviewPerUserMovie ==
    \A r1, r2 \in reviews : (r1.user = r2.user /\ r1.movie = r2.movie) => r1 = r2

\* a second row for a pair was attempted and the constraint refused it
C1_Witness == response = "unique_violation" /\ reviews # {}

\* C2: when a user who has a review of a movie submits another valid review of it
\* (browser form or API POST), the number of rows is unchanged and the row carries
\* the submitted rating and comment.
C2_ResubmissionUpdates ==
    [][\A a \in Users, pk \in MovieIds, inp \in ReviewInputs :
         (/\ FirstReview(reviews, a, pk) # 0
          /\ ReviewValid(inp[1], inp[2])
          /\ SubmitReview(a, pk, inp, FALSE) \/ ApiSubmitReview(a, pk, inp, pk, "no"))
         => /\ Cardinality(reviews') = Cardinality(reviews)
            /\ [id |-> FirstReview(reviews, a, pk), user |-> a, movie |-> pk,
                rating |-> inp[1], comment |-> inp[2]] \in reviews']_vars

\* the one review ever created has been rewritten to rating 2
C2_Witness ==
    /\ response = "updated"
    /\ nextReviewId = 2
    /\ \E r \in reviews : r.rating = 2 /\ r.comment = "dull"

\* C3: when a submission that read "no review" writes after a concurrent submission
\* created the row, it does not end in an integrity error: it updates that row, and
\* the pair has exactly one row.
C3_RaceLoserUpdates ==
    [][\A inp \in ReviewInputs :
         (/\ inflight.op = "review"
          /\ inflight.seen = 0
          /\ FirstReview(reviews, inflight.user, inflight.movie) # 0
          /\ ReviewResume(inp))
         => /\ response' \notin {"unique_violation", "fk_violation"}
            /\ \E r \in reviews' :
                 /\ r.user = inflight.user /\ r.movie = inflight.movie
                 /\ r.rating = inp[1] /\ r.comment = inp[2]
            /\ Cardinality({r \in reviews' : r.user = inflight.user
                                              /\ r.movie = inflight.movie}) = 1]_vars

\* C4: in every reachable state there is at most one Watchlist row for each
\* (user, movie) pair.
C4_OneWatchPerUserMovie ==
    \A w1, w2 \in watchlist : (w1.user = w2.user /\ w1.movie = w2.movie) => w1 = w2

\* a second row for a pair was attempted and the constraint refused it
C4_Witness == response = "unique_violation" /\ watchlist # {}

\* C5: two toggle_watchlist requests of one user for one existing movie, with no
\* other request in between, leave the watchlist memberships as they were.
C5_DoubleToggleRestores == tog.count = 2 => Members(watchlist) = tog.before

\* two toggles back to back, of a pair that was on the watchlist before them
C5_Witness == tog.count = 2 /\ <<tog.user, tog.movie>> \in tog.before

\* C6: a toggle_watchlist request of an authenticated user for an existing movie
\* completes without an error, also when two toggles of the pair interleave.
C6_ToggleNeverFails ==
    [][(\/ ToggleResume /\ MovieExists(movies, inflight.movie)
        \/ \E a \in Users, pk \in MovieIds :
             MovieExists(movies, pk) /\ ToggleWatchlist(a, pk, "no"))
       => response' \in {"added", "removed"}]_vars

\* C7: in every reachable state every Movie has exactly one MovieProfile.
C7_ExactlyOneProfile == \A m \in movies : Len(profiles[m.id]) = 1

\* C8: when the profile write fails after the Movie row was written, neither write
\* is visible afterwards, on every path that creates or updates a Movie.
C8_AllOrNothing ==
    [][\A a \in Actors, pk \in MovieIds, d \in CatalogInputs, f \in BOOLEAN :
         (\/ AddMovie(a, d, f, TRUE)
          \/ UpdateMovie(a, pk, d, f, TRUE, "no")
          \/ ApiCreateMovie(a, d, TRUE, FALSE)
          \/ ApiUpdateMovie(a, pk, d, TRUE, "no"))
         => UNCHANGED <<movies, profiles>>]_vars

\* a create, update or delete request of the browser views by `a`
BrowserCatalogRequest(a) ==
    \E pk \in MovieIds, d \in CatalogInputs, f \in BOOLEAN, x \in BOOLEAN :
       \/ AddMovie(a, d, f, x)
       \/ \E z \in UpdateSuspends : UpdateMovie(a, pk, d, f, x, z)
       \/ \E z \in BOOLEAN : DeleteMovie(a, pk, z)

\* a POST, PUT or DELETE of the movie API by `a`
ApiCatalogRequest(a) ==
    \E pk \in MovieIds, d \in CatalogInputs, x \in BOOLEAN :
       \/ \E z \in BOOLEAN : ApiCreateMovie(a, d, x, z)
       \/ \E z \in ApiUpdateSuspends : ApiUpdateMovie(a, pk, d, x, z)
       \/ \E z \in BOOLEAN : ApiDeleteMovie(a, pk, z)

\* C9 as claimed: every catalog request of a non-staff caller, anonymous callers
\* included, leaves the catalog unchanged and is refused, never redirected.
C9_NonStaffRefused ==
    [][\A a \in Actors :
         (~is_staff(a) /\ (BrowserCatalogRequest(a) \/ ApiCatalogRequest(a)))
         => /\ UNCHANGED <<movies, profiles, reviews, watchlist>>
            /\ response' \in {"forbidden", "not_authenticated"}]_vars

\* C9 as amended: every catalog request of a non-staff caller leaves the catalog
\* unchanged; an authenticated caller is answered forbidden, an anonymous caller is
\* redirected to the login page by the browser views and refused as not
\* authenticated by the API.
C9_NonStaffChangesNothing ==
    [][\A a \in Actors : ~is_staff(a) =>
         /\ BrowserCatalogRequest(a)
            => /\ UNCHANGED <<movies, profiles, reviews, watchlist>>
               /\ response' = IF a = Anon THEN "redirect" ELSE "forbidden"
         /\ ApiCatalogRequest(a)
            => /\ UNCHANGED <<movies, profiles, reviews, watchlist>>
               /\ response' = IF a = Anon THEN "not_authenticated" ELSE "forbidden"]_vars

\* a non-staff user was refused while the catalog holds a movie
C9_Witness == response = "forbidden" /\ movies # {}

\* a request of the review handlers, or of the catalog, by `a`
ReviewRequestBy(a) ==
    \/ \E pk \in MovieIds, inp \in ReviewInputs, z \in BOOLEAN : SubmitReview(a, pk, inp, z)
    \/ \E pk \in MovieIds, inp \in ReviewInputs, z \in ApiSubmitSuspends :
          ApiSubmitReview(a, pk, inp, pk, z)
    \/ \E inp \in ReviewInputs :
          /\ inflight.user = a
          /\ \/ ReviewResume(inp)
             \/ ApiUpdateReviewResume(inp)
             \/ \E z \in BOOLEAN : ApiUpdateReviewCheck(inp, z) \/ ApiSubmitResume(inp, z)
    \/ \E rid \in ReviewIds, z \in DeleteReviewSuspends : DeleteReview(a, rid, z)
    \/ \E rid \in ReviewIds, z \in BOOLEAN : ApiDeleteReview(a, rid, z)
    \/ /\ inflight.user = a
       /\ ApiDeleteReviewResume \/ \E z \in BOOLEAN : DeleteReviewResume(z)
    \/ \E rid \in ReviewIds, inp \in ReviewInputs, bm \in MovieIds,
          z \in ReviewUpdateSuspends : ApiUpdateReview(a, rid, inp, bm, z)
    \/ \E pk \in MovieIds, d \in CatalogInputs, f \in BOOLEAN, x \in BOOLEAN :
          AddMovie(a, d, f, x) \/ DeleteMovie(a, pk, FALSE)
    \/ \E rid \in ReviewIds, u \in Users, pk \in MovieIds, inp \in AdminInputs :
          \/ AdminAddReview(a, u, pk, inp)
          \/ AdminChangeReview(a, rid, u, pk, inp)
          \/ AdminDeleteReview(a, rid)

RatingOrCommentChanged(r) ==
    \E r2 \in reviews' : r2.id = r.id /\ (r2.rating # r.rating \/ r2.comment # r.comment)

RowDeleted(r) == ~\E r2 \in reviews' : r2.id = r.id

\* C10: no request of a user other than the owner changes a review's rating or
\* comment, and no request of a user who is neither the owner nor staff deletes it.
C10_OwnerOrStaffOnly ==
    [][\A r \in reviews, a \in Actors :
         /\ (RatingOrCommentChanged(r) /\ a # r.user) => ~ReviewRequestBy(a)
         /\ (RowDeleted(r) /\ a # r.user /\ ~is_staff(a)) => ~ReviewRequestBy(a)]_vars

\* the rows of reviews' whose id no row of reviews has
NewReviews == {r2 \in reviews' : ~\E r \in reviews : r.id = r2.id}

\* C11: the owner of a Review row is the user whose request created it, whatever
\* user value the request carried, and no later request changes the owner of a row.
C11_OwnerIsRequester ==
    [][/\ \A r \in reviews, r2 \in reviews' : r2.id = r.id => r2.user = r.user
       /\ \A r2 \in NewReviews :
            /\ \A a \in Users, pk \in MovieIds, inp \in ReviewInputs :
                 (SubmitReview(a, pk, inp, FALSE) \/ ApiSubmitReview(a, pk, inp, pk, "no"))
                 => r2.user = a
            /\ (\E inp \in ReviewInputs : ReviewResume(inp)) => r2.user = inflight.user
       /\ \A a \in Users, pk \in MovieIds, inp \in ReviewInputs :
            (/\ inflight = Idle /\ inflight' # Idle
             /\ SubmitReview(a, pk, inp, TRUE) \/ ApiSubmitReview(a, pk, inp, pk, "read"))
            => inflight'.user = a]_vars

\* a request of a browser route in the session
BrowserRequest ==
    \/ \E srt \in SortKeys, mr \in MinRatings, page \in ListPages : BrowseMovieList(srt, mr, page)
    \/ \E pk \in MovieIds, inp \in ReviewInputs : BrowseSubmitReview(pk, inp)
    \/ BrowseWatchlistPage
    \/ \E pk \in MovieIds : BrowseToggleWatchlist(pk)
    \/ \E rid \in ReviewIds : BrowseDeleteReview(rid)
    \/ \E pk \in MovieIds, d \in CatalogInputs :
          BrowseAddMovie(d) \/ BrowseUpdateMovie(pk, d) \/ BrowseDeleteMovie(pk)

\* C12: while the session of a logged-in user holds no token, or a token older than
\* one hour, every request of a browser route in that session performs no read and no
\* write and ends the session, so that the user has to log in again.
C12_ExpiredTokenRefused ==
    [][(/\ is_authenticated(session.user)
        /\ ~validate_token(session.token, now)
        /\ BrowserRequest)
       => /\ UNCHANGED <<movies, profiles, reviews, watchlist, context>>
          /\ session' = NoSession]_vars
\* the rows of the response last rendered
Reported == UNION {{context.pages[i][j] : j \in 1..Len(context.pages[i])} :
                     i \in 1..Len(context.pages)}

\* C13: for every movie with zero reviews, the average rating reported is 0 and the
\* review count reported is 0, by Movie.get_average_rating/get_review_count, by the
\* annotation of the movie list and by the watchlist page.
C13_ZeroReviewsReportZero ==
    \A row \in Reported :
        (\A r \in reviews : r.movie # row.id)
            => /\ ~row.avg_rating.null
               /\ row.avg_rating.n = 0
               /\ row.review_count = 0
\* the ratings of a movie's reviews
RatingsOf(pk) == {r \in reviews : r.movie = pk}

RECURSIVE SumOf(_)
SumOf(rows) ==
    IF rows = {} THEN 0
    ELSE LET r == CHOOSE x \in rows : TRUE IN r.rating + SumOf(rows \ {r})

\* two movies have the same ratings, whatever the order of their insertion
SameRatings(a, b) ==
    \A v \in 1..5 :
        Cardinality({r \in RatingsOf(a) : r.rating = v})
            = Cardinality({r \in RatingsOf(b) : r.rating = v})

\* C14: for every movie with at least one review, the average rating reported is
\* sum(ratings) / count(ratings) rounded to one decimal place, and two movies with the
\* same ratings inserted in different orders report the same average; by
\* Movie.get_average_rating, the movie-list annotation and the watchlist page.
C14_AverageRoundedToOneDecimal ==
    /\ \A row \in Reported :
          RatingsOf(row.id) # {}
              => /\ ~row.avg_rating.null
                 /\ 10 * row.avg_rating.n
                      = Round1(SumOf(RatingsOf(row.id)), Cardinality(RatingsOf(row.id)))
                          * row.avg_rating.d
    /\ \A a, b \in Reported :
          (RatingsOf(a.id) # {} /\ SameRatings(a.id, b.id))
              => a.avg_rating.n * b.avg_rating.d = b.avg_rating.n * a.avg_rating.d
\* the movies whose average rating, 0 without reviews, is at least t = n / d
AtLeast(t) ==
    {m.id : m \in {x \in movies :
        IF RatingsOf(x.id) = {} THEN 0 >= t.n
        ELSE SumOf(RatingsOf(x.id)) * t.d >= t.n * Cardinality(RatingsOf(x.id))}}

\* C15: with a numeric min_rating = t the movie list holds exactly the movies whose
\* average rating is >= t, a movie without reviews counting as average 0 (so it is
\* listed whenever t <= 0); with no min_rating every movie is listed.
C15_MinRatingInclusive ==
    (context.view = "movie_list" /\ (context.min_rating = "" \/ ParseFloat(context.min_rating).ok))
        => LET expected == IF context.min_rating = "" THEN {m.id : m \in movies}
                           ELSE AtLeast(ParseFloat(context.min_rating))
           IN  /\ context.count = Cardinality(expected)
               /\ {row.id : row \in Reported} \subseteq expected
\* the rows of the pages walked so far, in the order of the walk
RECURSIVE Concat(_)
Concat(pages) == IF pages = <<>> THEN <<>> ELSE Head(pages) \o Concat(Tail(pages))

\* the average of a row as a quotient, a movie without reviews counting as 0
AvgLeq(a, b) ==
    (IF a.avg_rating.null THEN 0 ELSE a.avg_rating.n) * b.avg_rating.d
        <= (IF b.avg_rating.null THEN 0 ELSE b.avg_rating.n) * a.avg_rating.d

\* the walk has visited every page of the listing, from page 1
CompleteWalk ==
    context.view = "movie_list" /\ context.first = 1 /\ Len(context.pages) = context.num_pages

\* C16: walking pages 1, 2, ... of the movie list, movies without reviews included,
\* sort=best_rated gives average ratings that never increase and sort=worst_rated
\* average ratings that never decrease; every matching movie is on exactly one page,
\* and a page holds 6 movies (the last one at most 6).
C16_SortedAcrossPages ==
    context.view = "movie_list" =>
        LET rows == Concat(context.pages)
            matching == {m.id : m \in FilterMinRating(Annotated(movies, reviews),
                                                      context.min_rating)}
        IN  /\ context.sort = "best_rated"
                  => \A i, j \in 1..Len(rows) : i < j => AvgLeq(rows[j], rows[i])
            /\ context.sort = "worst_rated"
                  => \A i, j \in 1..Len(rows) : i < j => AvgLeq(rows[i], rows[j])
            /\ \A i, j \in 1..Len(rows) : i # j => rows[i].id # rows[j].id
            /\ {rows[i].id : i \in 1..Len(rows)} \subseteq matching
            /\ \A k \in 1..Len(context.pages) :
                  Len(context.pages[k]) <= PageSize
                  /\ (context.first + k - 1 < context.num_pages
                        => Len(context.pages[k]) = PageSize)
            /\ CompleteWalk => {rows[i].id : i \in 1..Len(rows)} = matching

\* two rows tie on the primary key of the sort
PrimaryTie(sort_by, a, b) ==
    IF sort_by \in {"best_rated", "worst_rated"}
    THEN CmpAvg(a.avg_rating, b.avg_rating) = 0
    ELSE a.review_count = b.review_count

\* oldest and newest: the listing is in the order of the release date, the only key
ReleaseDateOnly ==
    LET rows == Concat(context.pages)
    IN  /\ Len(context.order_by) = 1
        /\ context.order_by[1] \in {"release_date", "-release_date"}
        /\ \A i, j \in 1..Len(rows) :
              i < j => IF context.sort = "oldest"
                       THEN rows[i].release_date <= rows[j].release_date
                       ELSE rows[i].release_date >= rows[j].release_date

\* C17: under each of best_rated, worst_rated, most_reviewed and least_reviewed the
\* movies that tie on the primary key of the sort are listed by review count,
\* descending, on a page and from one page of the listing to the next; oldest and
\* newest order by release date only, with no secondary key.
C17_TiesByReviewCount ==
    context.view = "movie_list" =>
        LET rows == Concat(context.pages)
        IN  IF context.sort \in {"best_rated", "worst_rated", "most_reviewed", "least_reviewed"}
            THEN \A i, j \in 1..Len(rows) :
                    (i < j /\ PrimaryTie(context.sort, rows[i], rows[j]))
                        => rows[i].review_count >= rows[j].review_count
            ELSE ReleaseDateOnly

\* a best_rated listing with two movies of equal average: the one with more reviews
\* is listed first, although it is the later movie
C17_Witness ==
    /\ context.view = "movie_list"
    /\ context.sort = "best_rated"
    /\ LET rows == Concat(context.pages)
       IN  \E i, j \in 1..Len(rows) :
              /\ i < j
              /\ PrimaryTie(context.sort, rows[i], rows[j])
              /\ rows[i].review_count > rows[j].review_count
              /\ rows[i].id > rows[j].id

\* C18: every persisted Movie has duration > 0, delivery mode THEATER or STREAMING,
\* a non-blank name and a release date not in the future, and every persisted Review
\* has a rating in 1..5 and a non-blank comment, whether the data came through the
\* browser forms or through the API serializers.
C18_StoredDataValid ==
    /\ \A m \in movies :
          /\ m.duration > 0
          /\ m.delivery_mode \in {"THEATER", "STREAMING"}
          /\ m.name \notin Blank
          /\ m.release_date <= Today
    /\ \A r \in reviews :
          /\ r.rating \in 1..5
          /\ r.comment \notin Blank
\* every MovieProfile, Review and Watchlist row refers to a Movie that exists
RefersToMovie ==
    /\ \A pk \in MovieIds : Len(profiles[pk]) > 0 => MovieExists(movies, pk)
    /\ \A r \in reviews : MovieExists(movies, r.movie)
    /\ \A w \in watchlist : MovieExists(movies, w.movie)

\* a step that deletes movie pk removes its profile, its reviews and its watchlist
\* entries, and nothing of another movie
DeletesExactly(pk) ==
    (MovieExists(movies, pk) /\ ~MovieExists(movies', pk))
        => /\ movies' = {m \in movies : m.id # pk}
           /\ profiles' = [profiles EXCEPT ![pk] = <<>>]
           /\ reviews' = {r \in reviews : r.movie # pk}
           /\ watchlist' = {w \in watchlist : w.movie # pk}

\* C19: in every reachable state every MovieProfile, Review and Watchlist row refers
\* to a Movie that exists; deleting a Movie, in the browser or over the API, removes
\* its profile, all its reviews and all watchlist entries for it in the same step, and
\* nothing that belongs to another movie.
C19_ReferentialIntegrity ==
    /\ []RefersToMovie
    /\ [][\A pk \in MovieIds : DeletesExactly(pk)]_vars

\* two movies, two reviews and two watchlist entries were created; one movie has been
\* deleted, and one review and one watchlist entry remain, with the other movie
C19_Witness ==
    /\ response = "ok"
    /\ nextMovieId = 3 /\ Cardinality(movies) = 1
    /\ nextReviewId = 3 /\ Cardinality(reviews) = 1
    /\ nextWatchId = 3 /\ Cardinality(watchlist) = 1
    /\ \A pk \in MovieIds : MovieExists(movies, pk) => Len(profiles[pk]) = 1
\* C20: the movie a Review belongs to never changes after the review is created: a
\* browser resubmission, an API POST upsert and an API PUT on the review by its owner
\* change at most the rating and the comment.
C20_ReviewKeepsMovie ==
    [][\A r \in reviews : \A q \in reviews' :
          q.id = r.id => q.movie = r.movie]_vars
\* a step of a review submission by u for movie pk: the request run whole, its read,
\* or its write after a preemption
ReviewSubmissionStep(u, pk) ==
    \/ \E inp \in FrameInputs, z \in BOOLEAN : SubmitReview(u, pk, inp, z)
    \/ \E inp \in FrameInputs, bm \in MovieIds, z \in ApiSubmitSuspends :
          ApiSubmitReview(u, pk, inp, bm, z)
    \/ /\ inflight.user = u /\ inflight.movie = pk
       /\ \E inp \in FrameInputs :
             ReviewResume(inp) \/ \E z \in BOOLEAN : ApiSubmitResume(inp, z)

\* a step of a watchlist toggle by u for movie pk
ToggleStep(u, pk) ==
    \/ \E z \in ToggleSuspends : ToggleWatchlist(u, pk, z)
    \/ /\ inflight.user = u /\ inflight.movie = pk
       /\ ToggleResume \/ \E z \in BOOLEAN : ToggleMovieResume(z)

\* the rows that are not of user u for movie pk
Others(rows, u, pk) == {r \in rows : ~(r.user = u /\ r.movie = pk)}

\* C21: a review submission by a non-staff user u for movie m changes nothing except
\* u's own review of m, and a watchlist toggle by u for m nothing except u's own
\* watchlist entry for m: the reviews and watchlist entries of other users and of
\* other movies, and every Movie and MovieProfile, are the same before and after.
C21_OnlyOwnRowChanges ==
    [][\A u \in NonStaff, pk \in MovieIds :
          /\ ReviewSubmissionStep(u, pk)
                => /\ UNCHANGED <<movies, profiles, watchlist>>
                   /\ Others(reviews', u, pk) = Others(reviews, u, pk)
          /\ ToggleStep(u, pk)
                => /\ UNCHANGED <<movies, profiles, reviews>>
                   /\ Others(watchlist', u, pk) = Others(watchlist, u, pk)]_vars

====
